---- MODULE Spec2Model ----
(***************************************************************************)
(* Model of the powerline-footer status pipeline of udit-001/vibe:         *)
(*   - the external process gateway (runGit) and the branch resolution     *)
(*     built on it (fetchGitBranch), specification GitSpec;                *)
(*   - the stale-while-revalidate freshness cache of git-status.ts and     *)
(*     the remote-quota refresh of index.ts, specification Spec;           *)
(*   - the segment renderers and the responsive layout pass, applied to    *)
(*     inputs drawn in the initial state (ParseSpec, ContextSpec,          *)
(*     LayoutSpec);                                                        *)
(*   - the powerline command, the editor setup and the layout cache of     *)
(*     index.ts, specifications PanelSpec and LayoutCacheSpec;             *)
(*   - the layout pass on lists of segment ids (SegmentSpec), the events   *)
(*     that invalidate the cache (EventSpec), the status counts through    *)
(*     the gateway (GatewaySpec), the quota refresh next to the editor     *)
(*     setup (CodexSpec);                                                  *)
(*   - the vibe generation of working-vibes.ts, specification VibeSpec.    *)
(* Text is a sequence of one-character strings, so that trimming,          *)
(* splitting and concatenation are computed as the code computes them.     *)
(***************************************************************************)
EXTENDS Integers, Sequences, FiniteSets, TLC

VARIABLES
  \* ---- git-status.ts module state (lines 18-23)
  cachedStatus, cachedBranch, pendingFetch, pendingBranchFetch,
  invalidationCounter, branchInvalidationCounter,
  \* ---- the promise chains alive in the event loop (the background fetches)
  branchFetches, statusFetches,
  \* ---- Date.now(), and the value returned by the call that just ran
  now, ret,
  \* ---- history, per kind: the generation of the fetch that wrote the cache
  \*      entry; the start of the latest fetch
  source, lastStart,
  \* ---- index.ts closure state of powerlineFooter (lines 152-154)
  codexUsage, codexUsageInFlight, codexFetches,
  \* ---- one runGit call (git-status.ts lines 63-96): its closure and process
  proc, stdout, resolved, timeoutId, settled, resolveCalls, firstEvent,
  \* ---- one fetchGitBranch call (git-status.ts lines 102-109)
  fgbPc, fgbBranch, fgbSha, fgbResult, fgbCalls,
  \* ---- one fetchGitStatus parse: the porcelain text and the counts
  porcelain, parsed,
  \* ---- one render of context_pct: the last assistant message's token
  \*      total, ctx.model.contextWindow, and the rendered segment
  contextTokens, modelContextWindow, pctRendered,
  \* ---- one computeResponsiveLayout call (index.ts lines 77-131): what
  \*      renderSegment gave for each segment id of the preset, the
  \*      separator glyph, the available width, and the result
  rendered, separatorLeft, availableWidth, layout,
  \* ---- index.ts: config.preset and the closure of powerlineFooter
  \*      (lines 25-27, 138-150)
  configPreset, enabled, currentCtx, footerDataRef, tuiRef,
  welcomeHeaderActive, lastLayoutWidth, lastLayoutResult, lastLayoutTimestamp,
  \* ---- the host's UI: the surfaces this extension has installed, the
  \*      import().then callbacks of setupCustomEditor still to run, the
  \*      last notice shown, and what the last render got from
  \*      getResponsiveLayout
  surfaces, editorSetups, notice, layoutRet,
  \* ---- history: per width, the layout last computed for it and when, as
  \*      long as the layout-cache window is open and no preset change or
  \*      toggle has happened since
  served,
  \* ---- working-vibes.ts module state (lines 54-58, 68): config.mode,
  \*      the controller of the latest generation (0 for null), the
  \*      streaming flag, the time of the last vibe, the recent vibes
  vibeMode, currentGeneration, isStreaming, lastVibeTime, recentVibes,
  \* ---- the AbortControllers made by generateAndUpdate, by number, each
  \*      with its generation still awaited or not, and the host's working
  \*      message
  controllers, workingMessage,
  \* ---- history: how many times the agent has ended
  agentEnds

cacheVars == <<cachedStatus, cachedBranch, pendingFetch, pendingBranchFetch,
               invalidationCounter, branchInvalidationCounter,
               branchFetches, statusFetches, now, ret, source, lastStart,
               codexUsage, codexUsageInFlight, codexFetches>>

gitVars == <<proc, stdout, resolved, timeoutId, settled, resolveCalls,
             firstEvent, fgbPc, fgbBranch, fgbSha, fgbResult, fgbCalls>>

parseVars == <<porcelain, parsed>>
pctVars == <<contextTokens, modelContextWindow, pctRendered>>
layoutVars == <<rendered, separatorLeft, availableWidth, layout>>
vibeVars == <<vibeMode, currentGeneration, isStreaming, lastVibeTime,
              recentVibes, controllers, workingMessage, agentEnds>>
renderVars == <<parseVars, pctVars, layoutVars, vibeVars>>

layoutCache == <<lastLayoutWidth, lastLayoutResult, lastLayoutTimestamp>>
panelVars == <<configPreset, enabled, currentCtx, footerDataRef, tuiRef,
               welcomeHeaderActive, layoutCache, surfaces, editorSetups,
               notice, layoutRet, served>>

uiVars == <<renderVars, panelVars>>

vars == <<cacheVars, gitVars, uiVars>>

(***************************************************************************)
(* Text                                                                    *)
(***************************************************************************)

\* JavaScript null where a text may stand: a one-token sequence that no text
\* equals, every text being a sequence of one-character strings.
Null == <<"null">>

\* JavaScript undefined (line[1] of a one-character line).
Undefined == "undefined"

\* The white space String.prototype.trim removes, within the alphabet used.
IsWhiteSpace(c) == c \in {" ", "\n", "\t"}

RECURSIVE TrimStart(_)
TrimStart(s) ==
  IF s = <<>> THEN <<>>
  ELSE IF IsWhiteSpace(Head(s)) THEN TrimStart(Tail(s)) ELSE s

RECURSIVE TrimEnd(_)
TrimEnd(s) ==
  IF s = <<>> THEN <<>>
  ELSE IF IsWhiteSpace(s[Len(s)]) THEN TrimEnd(SubSeq(s, 1, Len(s) - 1)) ELSE s

\* stdout.trim()
Trim(s) == TrimEnd(TrimStart(s))

\* A JavaScript string is truthy when it is not null and not empty.
Truthy(s) == s # Null /\ s # <<>>

\* The literal " (detached)" of the template string, and the bare "detached".
DetachedSuffix == <<" ", "(", "d", "e", "t", "a", "c", "h", "e", "d", ")">>
DetachedOnly == <<"d", "e", "t", "a", "c", "h", "e", "d">>

\* output.split("\n")
RECURSIVE SplitLines(_)
SplitLines(s) ==
  IF s = <<>> THEN << <<>> >>
  ELSE IF Head(s) = "\n" THEN << <<>> >> \o SplitLines(Tail(s))
  ELSE LET r == SplitLines(Tail(s))
       IN  << <<Head(s)>> \o Head(r) >> \o Tail(r)

ZeroCounts == [staged |-> 0, unstaged |-> 0, untracked |-> 0]

\* The loop body reading the two status columns in the opposite order.
CountLineWorkTreeFirst(c, line) ==
  IF line = <<>> THEN c
  ELSE LET y == line[1]
           x == IF Len(line) >= 2 THEN line[2] ELSE Undefined
       IN  IF x = "?" /\ y = "?"
           THEN [c EXCEPT !.untracked = @ + 1]
           ELSE [c EXCEPT
                   !.staged = IF x # Undefined /\ x # " " /\ x # "?"
                              THEN @ + 1 ELSE @,
                   !.unstaged = IF y # " " THEN @ + 1 ELSE @]

\* One iteration of the loop of parseGitStatusOutput over a line.
CountLine(c, line) ==
  IF line = <<>> THEN c
  ELSE LET x == line[1]
           y == IF Len(line) >= 2 THEN line[2] ELSE Undefined
       IN  IF x = "?" /\ y = "?"
           THEN [c EXCEPT !.untracked = @ + 1]
           ELSE [c EXCEPT
                   !.staged = IF x # " " /\ x # "?" THEN @ + 1 ELSE @,
                   !.unstaged = IF y # Undefined /\ y # " " THEN @ + 1 ELSE @]

RECURSIVE CountLines(_, _)
CountLines(c, lines) ==
  IF lines = <<>> THEN c ELSE CountLines(CountLine(c, Head(lines)), Tail(lines))

parseGitStatusOutput(output) == CountLines(ZeroCounts, SplitLines(output))

\* Lines of `git status --porcelain`: untracked, staged, unstaged, both,
\* and a staged line cut after its two columns.
MaxLines == 3
PorcelainLines ==
  { <<"?", "?", " ", "f">>, <<"M", " ", " ", "f">>, <<" ", "M", " ", "f">>,
    <<"M", "M", " ", "f">>, <<"M", " ">> }

\* lines.join("\n")
RECURSIVE JoinLines(_)
JoinLines(lines) ==
  IF lines = <<>> THEN <<>>
  ELSE IF Len(lines) = 1 THEN Head(lines)
  ELSE Head(lines) \o <<"\n">> \o JoinLines(Tail(lines))

PorcelainTexts ==
  { JoinLines(ls) : ls \in UNION { [1..n -> PorcelainLines] : n \in 0..MaxLines } }

\* fetchGitStatus hands the text to the parser (line 117).
ParseStatus ==
  /\ ~parsed.done
  /\ parsed' = [done |-> TRUE, counts |-> parseGitStatusOutput(porcelain)]
  /\ UNCHANGED <<porcelain, pctVars, layoutVars, vibeVars>>
  /\ UNCHANGED <<cacheVars, gitVars, panelVars>>

(***************************************************************************)
(* External process gateway: runGit, and fetchGitBranch on top of it       *)
(***************************************************************************)

\* Longest standard output the process writes, in characters.
MaxStdout == 3

\* The pieces in which standard output arrives ("data" events).
Chunks == { <<"m">>, <<"a", "1">>, <<" ">>, <<"\n">> }

\* Exit codes the "close" event carries; -1 stands for the null code of a
\* process ended by a signal.
CloseCodes == {0, 1, -1}

\* A promise not settled yet, and a lookup that was not made.
Pending == <<"pending">>
NotCalled == <<"not called">>

NoEvent == [ev |-> "none", code |-> 0, out |-> <<>>]
NoProc == [state |-> "none", errored |-> FALSE, killed |-> FALSE]

\* History: the first of close, error and timeout of the current process.
NoteEvent(e, c) ==
  firstEvent' = IF firstEvent.ev = "none"
                THEN [ev |-> e, code |-> c, out |-> stdout] ELSE firstEvent

\* finish(result), runGit's only way to settle its promise; timer is the
\* state of the timer when finish is called (clearTimeout clears an armed one).
\* With the guard removed, every event would settle again.
FinishUnguarded(result, timer) ==
  /\ resolved' = TRUE
  /\ timeoutId' = IF timer = "armed" THEN "cleared" ELSE timer
  /\ settled' = result
  /\ resolveCalls' = resolveCalls + 1

Finish(result, timer) ==
  IF resolved
  THEN /\ timeoutId' = timer
       /\ UNCHANGED <<resolved, settled, resolveCalls>>
  ELSE /\ resolved' = TRUE
       /\ timeoutId' = IF timer = "armed" THEN "cleared" ELSE timer
       /\ settled' = result
       /\ resolveCalls' = resolveCalls + 1

\* new Promise(...) of runGit: spawn the process, arm the timer.
SpawnGit ==
  /\ proc' = [state |-> "running", errored |-> FALSE, killed |-> FALSE]
  /\ stdout' = <<>>
  /\ resolved' = FALSE
  /\ timeoutId' = "armed"
  /\ settled' = Pending
  /\ resolveCalls' = 0
  /\ firstEvent' = NoEvent

\* proc.stdout.on("data"): has no guard, it appends also after the promise settled.
OnData ==
  /\ proc.state = "running"
  /\ \E chunk \in Chunks :
       /\ Len(stdout) + Len(chunk) <= MaxStdout
       /\ stdout' = stdout \o chunk
  /\ UNCHANGED <<proc, resolved, timeoutId, settled, resolveCalls, firstEvent>>
  /\ UNCHANGED <<fgbPc, fgbBranch, fgbSha, fgbResult, fgbCalls>>
  /\ UNCHANGED <<cacheVars, uiVars>>

\* proc.on("close")
OnClose ==
  /\ proc.state = "running"
  /\ \E code \in CloseCodes :
       /\ Finish(IF code = 0 THEN Trim(stdout) ELSE Null, timeoutId)
       /\ NoteEvent("close", code)
  /\ proc' = [proc EXCEPT !.state = "closed"]
  /\ UNCHANGED stdout
  /\ UNCHANGED <<fgbPc, fgbBranch, fgbSha, fgbResult, fgbCalls>>
  /\ UNCHANGED <<cacheVars, uiVars>>

\* proc.on("error"): the spawn or the kill failed; "close" may still follow.
OnError ==
  /\ proc.state = "running"
  /\ ~proc.errored
  /\ Finish(Null, timeoutId)
  /\ NoteEvent("error", 0)
  /\ proc' = [proc EXCEPT !.errored = TRUE]
  /\ UNCHANGED stdout
  /\ UNCHANGED <<fgbPc, fgbBranch, fgbSha, fgbResult, fgbCalls>>
  /\ UNCHANGED <<cacheVars, uiVars>>

\* The setTimeout callback: kill the process, settle with null.  The process
\* may have ended already, its "close" not being delivered yet.
OnTimeout ==
  /\ proc.state = "running"
  /\ timeoutId = "armed"
  /\ Finish(Null, "fired")
  /\ NoteEvent("timeout", 0)
  /\ proc' = [proc EXCEPT !.killed = TRUE]
  /\ UNCHANGED stdout
  /\ UNCHANGED <<fgbPc, fgbBranch, fgbSha, fgbResult, fgbCalls>>
  /\ UNCHANGED <<cacheVars, uiVars>>

\* fetchGitBranch() is called: the first statement starts
\* runGit(["branch", "--show-current"]).
FetchGitBranchCall ==
  /\ fgbPc \in {"idle", "done"}
  /\ SpawnGit
  /\ fgbPc' = "branch"
  /\ fgbBranch' = Pending
  /\ fgbSha' = NotCalled
  /\ fgbResult' = Pending
  /\ fgbCalls' = 1
  /\ UNCHANGED <<cacheVars, uiVars>>

\* fetchGitBranch as it was before 0.2.22: no early exit on null, the
\* rev-parse lookup runs whenever no name came back.
AfterBranchQueryNoEarlyExit(branch) ==
  IF Truthy(branch) THEN [done |-> TRUE, result |-> branch]
  ELSE [done |-> FALSE, result |-> Pending]

\* What fetchGitBranch does with the branch query's result: [done, result].
AfterBranchQuery(branch) ==
  IF branch = Null THEN [done |-> TRUE, result |-> Null]
  ELSE IF branch # <<>> THEN [done |-> TRUE, result |-> branch]
  ELSE [done |-> FALSE, result |-> Pending]

\* What fetchGitBranch returns after the rev-parse lookup.
AfterShaLookup(sha) ==
  IF Truthy(sha) THEN sha \o DetachedSuffix ELSE DetachedOnly

\* The await of the branch query resumes with its result; on the empty
\* string it starts runGit(["rev-parse", "--short", "HEAD"]).
FetchGitBranchResume ==
  /\ fgbPc = "branch"
  /\ resolved
  /\ fgbBranch' = settled
  /\ LET a == AfterBranchQuery(settled)
     IN  IF a.done
         THEN /\ fgbPc' = "done"
              /\ fgbResult' = a.result
              /\ UNCHANGED <<fgbSha, fgbCalls>>
              /\ UNCHANGED <<proc, stdout, resolved, timeoutId, settled,
                             resolveCalls, firstEvent>>
         ELSE /\ fgbPc' = "sha"
              /\ fgbCalls' = fgbCalls + 1
              /\ SpawnGit
              /\ UNCHANGED <<fgbSha, fgbResult>>
  /\ UNCHANGED <<cacheVars, uiVars>>

\* The await of the rev-parse lookup resumes with its result.
FetchGitBranchShaResume ==
  /\ fgbPc = "sha"
  /\ resolved
  /\ fgbSha' = settled
  /\ fgbResult' = AfterShaLookup(settled)
  /\ fgbPc' = "done"
  /\ UNCHANGED <<fgbBranch, fgbCalls>>
  /\ UNCHANGED <<proc, stdout, resolved, timeoutId, settled, resolveCalls, firstEvent>>
  /\ UNCHANGED <<cacheVars, uiVars>>

(***************************************************************************)
(* Freshness cache: git-status.ts                                          *)
(***************************************************************************)

CACHE_TTL_MS == 1000
BRANCH_TTL_MS == 500

\* The clock is observed every TickMs up to MaxTime; each invalidation
\* counter is followed up to MaxInvalidations.
TickMs == 500
MaxTime == 1000
MaxInvalidations == 2

\* null where a cache entry, a fetch result or a quota snapshot may stand.
NullEntry == [null |-> TRUE]

\* The in-flight markers hold a promise or null; only their truthiness is read.
NoPromise == "null"
APromise == "promise"

\* What the gateway can resolve with, for a process that prints one of outs:
\* null on any failure, the trimmed output on exit code 0.
RunGitResults(outs) == {Null} \cup { Trim(o) : o \in outs }

BranchOutputs == { <<>>, <<"m", "\n">> }
ShaOutputs == { <<"a", "1", "\n">> }
StatusOutputs == { <<>>, <<"?", "?", " ", "f", "\n">> }

\* The branch the host's footer data provider reports (the caller's fallback).
ProviderBranches == { <<"p">> }

NoRet == [op |-> "none"]
\* History of fetch starts: the latest start of a kind within the kind's TTL
\* window, whether the kind was invalidated since, and how that fetch ended
\* ("failed" when the gateway gave null); a start whose window has passed is
\* forgotten.
NoStart == [started |-> FALSE]
StartNow == [started |-> TRUE, at |-> now, invalidated |-> FALSE,
             outcome |-> "running"]
Ended(start, failed) ==
  IF start.started
  THEN [start EXCEPT !.outcome = IF failed THEN "failed" ELSE "ok"]
  ELSE start
Invalidated(start) ==
  IF start.started THEN [start EXCEPT !.invalidated = TRUE] ELSE start
Forget(start, ttl, time) ==
  IF start.started /\ time - start.at >= ttl THEN NoStart ELSE start

\* fetchGitStatus: null when the gateway failed, the parsed counts otherwise.
FetchGitStatusResult(output) ==
  IF output = Null THEN NullEntry ELSE parseGitStatusOutput(output)

\* What git writes for the status lines joined in text: every line ends
\* with a newline.
GitPrints(text) == IF text = <<>> THEN <<>> ELSE text \o <<"\n">>

\* fetchGitStatus (lines 111-118) over a process that prints the status
\* lines: the gateway resolves with null or the trimmed output, and the
\* parser counts what the gateway gave.
FetchGitStatus ==
  /\ ~parsed.done
  /\ \E output \in RunGitResults({GitPrints(porcelain)}) :
       parsed' = [done |-> TRUE, op |-> "fetchGitStatus",
                  failed |-> (output = Null),
                  counts |-> FetchGitStatusResult(output)]
  /\ UNCHANGED <<porcelain, pctVars, layoutVars, vibeVars>>
  /\ UNCHANGED <<cacheVars, gitVars, panelVars>>

\* sequence s without its i-th element
RemoveAt(s, i) == SubSeq(s, 1, i - 1) \o SubSeq(s, i + 1, Len(s))

\* ---- getCurrentBranch(providerBranch), lines 124-149

BranchIsFresh ==
  cachedBranch # NullEntry /\ now - cachedBranch.timestamp < BRANCH_TTL_MS

\* A read that does not look at the in-flight marker.
BranchReadStartsUnguarded == ~BranchIsFresh

\* Whether this call starts a background fetch (line 133).
BranchReadStarts == ~BranchIsFresh /\ pendingBranchFetch = NoPromise

\* The read as it was before 0.2.22: the provider's branch whenever the entry
\* is not fresh.
BranchReadValueProvider(providerBranch) ==
  IF BranchIsFresh THEN cachedBranch.branch ELSE providerBranch

\* The value returned (lines 129 and 148).
BranchReadValue(providerBranch) ==
  IF BranchIsFresh THEN cachedBranch.branch
  ELSE IF cachedBranch # NullEntry THEN cachedBranch.branch ELSE providerBranch

\* The state change of the call (lines 133-145, up to the first await).
BranchReadEffect ==
  IF BranchReadStarts
  THEN /\ pendingBranchFetch' = APromise
       /\ branchFetches' = Append(branchFetches,
            [fetchId |-> branchInvalidationCounter, pc |-> "branch"])
  ELSE UNCHANGED <<pendingBranchFetch, branchFetches>>

GetCurrentBranch ==
  \E providerBranch \in ProviderBranches :
    /\ BranchReadEffect
    /\ ret' = [op |-> "getCurrentBranch", provider |-> providerBranch,
               branch |-> BranchReadValue(providerBranch)]
    /\ lastStart' = [lastStart EXCEPT !.branch =
         IF BranchReadStarts
         THEN StartNow
         ELSE @]
      /\ UNCHANGED <<cachedStatus, cachedBranch, pendingFetch, statusFetches,
                   invalidationCounter, branchInvalidationCounter, now, source>>
    /\ UNCHANGED <<codexUsage, codexUsageInFlight, codexFetches>>
    /\ UNCHANGED <<gitVars, uiVars>>

\* ---- getGitStatus(providerBranch), lines 157-196

\* The status entry judged with the branch's TTL.
StatusIsFreshBranchTtl ==
  cachedStatus # NullEntry /\ now - cachedStatus.timestamp < BRANCH_TTL_MS

StatusIsFresh ==
  cachedStatus # NullEntry /\ now - cachedStatus.timestamp < CACHE_TTL_MS

\* A read that refreshes an entry it has and never fills an empty one.
StatusReadStartsWhenStale ==
  cachedStatus # NullEntry /\ ~StatusIsFresh /\ pendingFetch = NoPromise

StatusReadStarts == ~StatusIsFresh /\ pendingFetch = NoPromise

\* The counts returned (lines 163-168, 186-195).
StatusReadCounts ==
  IF StatusIsFresh
  THEN [staged |-> cachedStatus.staged, unstaged |-> cachedStatus.unstaged,
        untracked |-> cachedStatus.untracked]
  ELSE IF cachedStatus # NullEntry
  THEN [staged |-> cachedStatus.staged, unstaged |-> cachedStatus.unstaged,
        untracked |-> cachedStatus.untracked]
  ELSE [staged |-> 0, unstaged |-> 0, untracked |-> 0]

StatusReadEffect ==
  IF StatusReadStarts
  THEN /\ pendingFetch' = APromise
       /\ statusFetches' = Append(statusFetches, [fetchId |-> invalidationCounter])
  ELSE UNCHANGED <<pendingFetch, statusFetches>>

\* The call on the state of git-status.ts; ret is the value returned.
GetGitStatusCall(providerBranch) ==
  /\ BranchReadEffect
  /\ StatusReadEffect
  /\ ret' = [op |-> "getGitStatus", provider |-> providerBranch,
             branch |-> BranchReadValue(providerBranch),
             counts |-> StatusReadCounts]
  /\ lastStart' = [branch |-> IF BranchReadStarts
                              THEN StartNow
                              ELSE lastStart.branch,
                   status |-> IF StatusReadStarts
                              THEN StartNow
                              ELSE lastStart.status]
  /\ UNCHANGED <<cachedStatus, cachedBranch, invalidationCounter,
                 branchInvalidationCounter, now, source>>

GetGitStatus ==
  \E providerBranch \in ProviderBranches :
    /\ GetGitStatusCall(providerBranch)
    /\ UNCHANGED <<codexUsage, codexUsageInFlight, codexFetches>>
    /\ UNCHANGED <<gitVars, uiVars>>

\* ---- invalidateGitStatus(), lines 201-204, and invalidateGitBranch(), 209-212

\* An invalidation that forgets to empty the entry.
InvalidateStatusKeepsEntry ==
  /\ cachedStatus' = cachedStatus
  /\ invalidationCounter' = invalidationCounter + 1

InvalidateStatusEffect ==
  /\ cachedStatus' = NullEntry
  /\ invalidationCounter' = invalidationCounter + 1

InvalidateBranchEffect ==
  /\ cachedBranch' = NullEntry
  /\ branchInvalidationCounter' = branchInvalidationCounter + 1

\* invalidateGitStatus() alone: the tool_result handler for write and edit
\* (index.ts lines 211-213).
InvalidateGitStatus ==
  /\ invalidationCounter < MaxInvalidations
  /\ InvalidateStatusEffect
  /\ ret' = NoRet
  /\ source' = [source EXCEPT !.status = -1]
  /\ lastStart' = [lastStart EXCEPT !.status = Invalidated(@)]
  /\ UNCHANGED <<cachedBranch, branchInvalidationCounter, pendingFetch,
                 pendingBranchFetch, branchFetches, statusFetches, now>>
  /\ UNCHANGED <<codexUsage, codexUsageInFlight, codexFetches>>
  /\ UNCHANGED <<gitVars, uiVars>>

\* invalidateGitBranch() alone (the exported function).
InvalidateGitBranch ==
  /\ branchInvalidationCounter < MaxInvalidations
  /\ InvalidateBranchEffect
  /\ ret' = NoRet
  /\ source' = [source EXCEPT !.branch = -1]
  /\ lastStart' = [lastStart EXCEPT !.branch = Invalidated(@)]
  /\ UNCHANGED <<cachedStatus, invalidationCounter, pendingFetch,
                 pendingBranchFetch, branchFetches, statusFetches, now>>
  /\ UNCHANGED <<codexUsage, codexUsageInFlight, codexFetches>>
  /\ UNCHANGED <<gitVars, uiVars>>

\* A bash tool result or a user escape command that may change the branch:
\* both invalidations (index.ts lines 217-220 and 231-234).
BranchChangingCommand ==
  /\ invalidationCounter < MaxInvalidations
  /\ branchInvalidationCounter < MaxInvalidations
  /\ InvalidateStatusEffect
  /\ InvalidateBranchEffect
  /\ ret' = NoRet
  /\ source' = [branch |-> -1, status |-> -1]
  /\ lastStart' = [branch |-> Invalidated(lastStart.branch),
                   status |-> Invalidated(lastStart.status)]
  /\ UNCHANGED <<pendingFetch, pendingBranchFetch, branchFetches,
                 statusFetches, now>>
  /\ UNCHANGED <<codexUsage, codexUsageInFlight, codexFetches>>
  /\ UNCHANGED <<gitVars, uiVars>>

\* ---- the tool_result and user_bash handlers, index.ts lines 200-240

\* The characters of a command line.
CommandLine(cmd) ==
  CASE cmd = "git checkout main" ->
         <<"g", "i", "t", " ", "c", "h", "e", "c", "k", "o", "u", "t", " ", "m", "a", "i", "n">>
    [] cmd = "git switch dev" ->
         <<"g", "i", "t", " ", "s", "w", "i", "t", "c", "h", " ", "d", "e", "v">>
    [] cmd = "git merge dev" ->
         <<"g", "i", "t", " ", "m", "e", "r", "g", "e", " ", "d", "e", "v">>
    [] cmd = "git rebase main" ->
         <<"g", "i", "t", " ", "r", "e", "b", "a", "s", "e", " ", "m", "a", "i", "n">>
    [] cmd = "git pull" ->
         <<"g", "i", "t", " ", "p", "u", "l", "l">>
    [] cmd = "git reset x" ->
         <<"g", "i", "t", " ", "r", "e", "s", "e", "t", " ", "x">>
    [] cmd = "git worktree add w" ->
         <<"g", "i", "t", " ", "w", "o", "r", "k", "t", "r", "e", "e", " ", "a", "d", "d", " ", "w">>
    [] cmd = "git branch -d old" ->
         <<"g", "i", "t", " ", "b", "r", "a", "n", "c", "h", " ", "-", "d", " ", "o", "l", "d">>
    [] cmd = "git branch -D old" ->
         <<"g", "i", "t", " ", "b", "r", "a", "n", "c", "h", " ", "-", "D", " ", "o", "l", "d">>
    [] cmd = "git branch -m a" ->
         <<"g", "i", "t", " ", "b", "r", "a", "n", "c", "h", " ", "-", "m", " ", "a">>
    [] cmd = "git branch -M a" ->
         <<"g", "i", "t", " ", "b", "r", "a", "n", "c", "h", " ", "-", "M", " ", "a">>
    [] cmd = "git stash pop" ->
         <<"g", "i", "t", " ", "s", "t", "a", "s", "h", " ", "p", "o", "p">>
    [] cmd = "git stash apply" ->
         <<"g", "i", "t", " ", "s", "t", "a", "s", "h", " ", "a", "p", "p", "l", "y">>
    [] cmd = "cd x && git  pull" ->
         <<"c", "d", " ", "x", " ", "&", "&", " ", "g", "i", "t", " ", " ", "p", "u", "l", "l">>
    [] cmd = "git status" ->
         <<"g", "i", "t", " ", "s", "t", "a", "t", "u", "s">>
    [] cmd = "git branch new" ->
         <<"g", "i", "t", " ", "b", "r", "a", "n", "c", "h", " ", "n", "e", "w">>
    [] cmd = "git stash list" ->
         <<"g", "i", "t", " ", "s", "t", "a", "s", "h", " ", "l", "i", "s", "t">>
    [] cmd = "legit merge x" ->
         <<"l", "e", "g", "i", "t", " ", "m", "e", "r", "g", "e", " ", "x">>
    [] cmd = "git commit -m merge" ->
         <<"g", "i", "t", " ", "c", "o", "m", "m", "i", "t", " ", "-", "m", " ", "m", "e", "r", "g", "e">>
    [] cmd = "ls" ->
         <<"l", "s">>
    [] OTHER -> <<>>

\* The command lines of the events: each git command of the patterns, a
\* command after another one and with two blanks, git commands that leave
\* the branch alone, a word that ends in git, the word merge in another
\* place, another program, and no command.
CommandTexts ==
  { "git checkout main",
    "git switch dev",
    "git merge dev",
    "git rebase main",
    "git pull",
    "git reset x",
    "git worktree add w",
    "git branch -d old",
    "git branch -D old",
    "git branch -m a",
    "git branch -M a",
    "git stash pop",
    "git stash apply",
    "cd x && git  pull",
    "git status",
    "git branch new",
    "git stash list",
    "legit merge x",
    "git commit -m merge",
    "ls",
    "" }

\* \w and \s of the regular expressions, over the characters in use.
IsWordChar(c) ==
  c \in {"a", "b", "c", "d", "e", "g", "h", "i", "k", "l", "m", "n", "o", "p",
         "r", "s", "t", "u", "v", "w", "x", "D", "M"}
IsSpace(c) == c \in {" ", "\t", "\n"}

\* text holds word from position i on.
HasAt(text, i, word) ==
  /\ i >= 1
  /\ i + Len(word) - 1 <= Len(text)
  /\ SubSeq(text, i, i + Len(word) - 1) = word

\* \s+ from position i: the positions after one or more blanks.
AfterSpaces(text, i) ==
  { j \in (i + 1)..(Len(text) + 1) : \A k \in i..(j - 1) : IsSpace(text[k]) }

\* \bgit\s+ : the positions after the word git and its blanks.
AfterGit(text) ==
  UNION { AfterSpaces(text, i + 3) :
            i \in { i \in 1..Len(text) :
                      /\ HasAt(text, i, <<"g", "i", "t">>)
                      /\ i = 1 \/ ~IsWordChar(text[i - 1]) } }

\* The alternatives of the first pattern but branch (line 203).
BranchSubcommands ==
  { <<"c", "h", "e", "c", "k", "o", "u", "t">>,
    <<"s", "w", "i", "t", "c", "h">>,
    <<"m", "e", "r", "g", "e">>,
    <<"r", "e", "b", "a", "s", "e">>,
    <<"p", "u", "l", "l">>,
    <<"r", "e", "s", "e", "t">>,
    <<"w", "o", "r", "k", "t", "r", "e", "e">> }

\* A test that takes every git command for one that changes the branch.
mightChangeGitBranchAnyGit(text) == AfterGit(text) # {}

\* mightChangeGitBranch (lines 201-207) on the characters of the command.
mightChangeGitBranch(text) ==
  \E j \in AfterGit(text) :
    \/ \E w \in BranchSubcommands : HasAt(text, j, w)
    \/ /\ HasAt(text, j, <<"b", "r", "a", "n", "c", "h">>)
       /\ \E k \in AfterSpaces(text, j + 6) :
            /\ HasAt(text, k, <<"-">>)
            /\ k + 1 <= Len(text)
            /\ text[k + 1] \in {"d", "D", "m", "M"}
    \/ /\ HasAt(text, j, <<"s", "t", "a", "s", "h">>)
       /\ \E k \in AfterSpaces(text, j + 5) :
            \/ HasAt(text, k, <<"p", "o", "p">>)
            \/ HasAt(text, k, <<"a", "p", "p", "l", "y">>)

\* What both handlers do to the caches: invalidateGitStatus() if status,
\* invalidateGitBranch() if branch; the re-renders they schedule read the
\* caches later, as any render does.
EventInvalidates(status, branch, event) ==
  /\ status => invalidationCounter < MaxInvalidations
  /\ branch => branchInvalidationCounter < MaxInvalidations
  /\ IF status THEN InvalidateStatusEffect
     ELSE UNCHANGED <<cachedStatus, invalidationCounter>>
  /\ IF branch THEN InvalidateBranchEffect
     ELSE UNCHANGED <<cachedBranch, branchInvalidationCounter>>
  /\ ret' = event
  /\ source' = [branch |-> IF branch THEN -1 ELSE source.branch,
                status |-> IF status THEN -1 ELSE source.status]
  /\ lastStart' =
       [branch |-> IF branch THEN Invalidated(lastStart.branch)
                   ELSE lastStart.branch,
        status |-> IF status THEN Invalidated(lastStart.status)
                   ELSE lastStart.status]
  /\ UNCHANGED <<pendingFetch, pendingBranchFetch, branchFetches,
                 statusFetches, now>>
  /\ UNCHANGED <<codexUsage, codexUsageInFlight, codexFetches>>
  /\ UNCHANGED <<gitVars, uiVars>>

\* The tools whose results arrive; only bash carries a command.
ToolNames == {"write", "edit", "read", "bash"}

\* The tool_result handler (lines 210-226).
ToolResult ==
  \E toolName \in ToolNames :
    \E cmd \in IF toolName = "bash" THEN CommandTexts ELSE {""} :
      LET changes == /\ toolName = "bash"
                     /\ cmd # ""
                     /\ mightChangeGitBranch(CommandLine(cmd))
      IN  EventInvalidates(toolName \in {"write", "edit"} \/ changes, changes,
            [op |-> "tool_result", toolName |-> toolName, command |-> cmd])

\* The user_bash handler (lines 230-240).
UserBash ==
  \E cmd \in CommandTexts :
    LET changes == mightChangeGitBranch(CommandLine(cmd))
    IN  EventInvalidates(changes, changes,
          [op |-> "user_bash", toolName |-> "", command |-> cmd])

\* ---- the background fetches

\* The then-callback of getCurrentBranch (lines 135-144).  It runs in the
\* microtasks of the event that settles the last runGit of fetchGitBranch,
\* so no other handler runs between that event and the callback.
\* The then-callback without the generation check.
BranchThenNoCheck(fetchId, result) ==
  /\ cachedBranch' = [branch |-> result, timestamp |-> now]
  /\ source' = [source EXCEPT !.branch = fetchId]
  /\ pendingBranchFetch' = NoPromise

\* The then-callback clearing the marker only when it commits.
BranchThenKeepsMarker(fetchId, result) ==
  IF fetchId = branchInvalidationCounter
  THEN /\ cachedBranch' = [branch |-> result, timestamp |-> now]
       /\ source' = [source EXCEPT !.branch = fetchId]
       /\ pendingBranchFetch' = NoPromise
  ELSE UNCHANGED <<cachedBranch, source, pendingBranchFetch>>

\* The then-callback as it was before 0.2.2: a null result is not cached.
BranchThenSkipsNull(fetchId, result) ==
  /\ IF fetchId = branchInvalidationCounter /\ result # Null
     THEN /\ cachedBranch' = [branch |-> result, timestamp |-> now]
          /\ source' = [source EXCEPT !.branch = fetchId]
     ELSE UNCHANGED <<cachedBranch, source>>
  /\ pendingBranchFetch' = NoPromise

BranchThen(fetchId, result) ==
  /\ IF fetchId = branchInvalidationCounter
     THEN /\ cachedBranch' = [branch |-> result, timestamp |-> now]
          /\ source' = [source EXCEPT !.branch = fetchId]
     ELSE UNCHANGED <<cachedBranch, source>>
  /\ pendingBranchFetch' = NoPromise

\* The branch query of a running fetchGitBranch settles; the fetch ends
\* unless the result is the empty string, on which the rev-parse lookup starts.
BranchQuerySettles ==
  \E i \in 1..Len(branchFetches) :
    /\ branchFetches[i].pc = "branch"
    /\ \E branch \in RunGitResults(BranchOutputs) :
         LET a == AfterBranchQuery(branch)
         IN  IF a.done
             THEN /\ BranchThen(branchFetches[i].fetchId, a.result)
                  /\ branchFetches' = RemoveAt(branchFetches, i)
                  /\ lastStart' = [lastStart EXCEPT
                                     !.branch = Ended(@, a.result = Null)]
             ELSE /\ branchFetches' = [branchFetches EXCEPT ![i].pc = "sha"]
                  /\ UNCHANGED <<cachedBranch, source, pendingBranchFetch,
                                 lastStart>>
    /\ ret' = NoRet
    /\ UNCHANGED <<cachedStatus, pendingFetch, statusFetches, invalidationCounter,
                   branchInvalidationCounter, now>>
    /\ UNCHANGED <<codexUsage, codexUsageInFlight, codexFetches>>
    /\ UNCHANGED <<gitVars, uiVars>>

\* The rev-parse lookup of a running fetchGitBranch settles; the fetch ends.
ShaLookupSettles ==
  \E i \in 1..Len(branchFetches) :
    /\ branchFetches[i].pc = "sha"
    /\ \E sha \in RunGitResults(ShaOutputs) :
         BranchThen(branchFetches[i].fetchId, AfterShaLookup(sha))
    /\ branchFetches' = RemoveAt(branchFetches, i)
    /\ lastStart' = [lastStart EXCEPT !.branch = Ended(@, FALSE)]
    /\ ret' = NoRet
    /\ UNCHANGED <<cachedStatus, pendingFetch, statusFetches, invalidationCounter,
                   branchInvalidationCounter, now>>
    /\ UNCHANGED <<codexUsage, codexUsageInFlight, codexFetches>>
    /\ UNCHANGED <<gitVars, uiVars>>

\* The then-callback without the generation check.
StatusThenNoCheck(fetchId, result) ==
  /\ cachedStatus' =
       IF result # NullEntry
       THEN [staged |-> result.staged, unstaged |-> result.unstaged,
             untracked |-> result.untracked, timestamp |-> now]
       ELSE [staged |-> 0, unstaged |-> 0, untracked |-> 0, timestamp |-> now]
  /\ source' = [source EXCEPT !.status = fetchId]
  /\ pendingFetch' = NoPromise

\* The then-callback of getGitStatus (lines 174-182).
StatusThen(fetchId, result) ==
  /\ IF fetchId = invalidationCounter
     THEN /\ cachedStatus' =
               IF result # NullEntry
               THEN [staged |-> result.staged, unstaged |-> result.unstaged,
                     untracked |-> result.untracked, timestamp |-> now]
               ELSE [staged |-> 0, unstaged |-> 0, untracked |-> 0,
                     timestamp |-> now]
          /\ source' = [source EXCEPT !.status = fetchId]
     ELSE UNCHANGED <<cachedStatus, source>>
  /\ pendingFetch' = NoPromise

\* The status query of a running fetchGitStatus settles; the fetch ends.
StatusQuerySettles ==
  \E i \in 1..Len(statusFetches) :
    /\ \E output \in RunGitResults(StatusOutputs) :
         /\ StatusThen(statusFetches[i].fetchId, FetchGitStatusResult(output))
         /\ lastStart' = [lastStart EXCEPT !.status = Ended(@, output = Null)]
    /\ statusFetches' = RemoveAt(statusFetches, i)
    /\ ret' = NoRet
    /\ UNCHANGED <<cachedBranch, pendingBranchFetch, branchFetches,
                   invalidationCounter, branchInvalidationCounter, now>>
    /\ UNCHANGED <<codexUsage, codexUsageInFlight, codexFetches>>
    /\ UNCHANGED <<gitVars, uiVars>>

(***************************************************************************)
(* Remote quota refresh: index.ts lines 152-170                            *)
(***************************************************************************)

\* The snapshots fetchCodexUsageSummary can return.
CodexSummaries == { [remainingPercent |-> 80, limitReached |-> FALSE] }

\* refreshCodexUsage(), up to its first await (called on session start and
\* by the interval timer).
RefreshCodexUsageCall ==
  /\ IF codexUsageInFlight # NoPromise
     THEN UNCHANGED <<codexUsageInFlight, codexFetches>>
     ELSE /\ codexUsageInFlight' = APromise
          /\ codexFetches' = Append(codexFetches, [pc |-> "fetch"])
  /\ UNCHANGED codexUsage

RefreshCodexUsage ==
  /\ RefreshCodexUsageCall
  /\ ret' = NoRet
  /\ UNCHANGED <<cachedStatus, cachedBranch, pendingFetch, pendingBranchFetch,
                 invalidationCounter, branchInvalidationCounter, branchFetches,
                 statusFetches, now, source, lastStart>>
  /\ UNCHANGED <<gitVars, uiVars>>

\* A catch block that keeps the snapshot it has.
CodexCatchKeepsSnapshot(usage) == usage

\* The catch block (lines 163-164).
CodexCatch(usage) == NullEntry

\* fetchCodexUsageSummary settles: try / catch / finally of lines 161-168.
\* It throws without a token, on a network error and on a response without
\* a primary window.  ret notes what the step did: whether the fetch threw,
\* whether a snapshot was held before, and whether tuiRef?.requestRender()
\* had a TUI to call.
CodexFetchSettles ==
  \E i \in 1..Len(codexFetches) :
    /\ \/ \E summary \in CodexSummaries :
            /\ codexUsage' = summary
            /\ ret' = [op |-> "refreshCodexUsage", threw |-> FALSE,
                       had |-> codexUsage # NullEntry,
                       requestRender |-> tuiRef]
       \/ /\ codexUsage' = CodexCatch(codexUsage)
          /\ ret' = [op |-> "refreshCodexUsage", threw |-> TRUE,
                     had |-> codexUsage # NullEntry,
                     requestRender |-> tuiRef]
    /\ codexUsageInFlight' = NoPromise
    /\ codexFetches' = RemoveAt(codexFetches, i)
    /\ UNCHANGED <<cachedStatus, cachedBranch, pendingFetch, pendingBranchFetch,
                   invalidationCounter, branchInvalidationCounter, branchFetches,
                   statusFetches, now, source, lastStart>>
    /\ UNCHANGED <<gitVars, uiVars>>

(***************************************************************************)
(* Presets and segment renderers: presets.ts, segments.ts                  *)
(***************************************************************************)

\* The keys of PRESETS (presets.ts lines 26-107).
PresetNames ==
  {"default", "minimal", "compact", "full", "nerd", "ascii", "custom"}

\* segmentOptions.git of each preset as gitSegment reads it: an option is on
\* unless it is set to false (opts.x !== false), so a missing one is on.
GitOptions(preset) ==
  CASE preset = "minimal" ->
         [showBranch |-> TRUE, showStaged |-> FALSE, showUnstaged |-> FALSE,
          showUntracked |-> FALSE]
    [] preset = "compact" ->
         [showBranch |-> TRUE, showStaged |-> TRUE, showUnstaged |-> TRUE,
          showUntracked |-> FALSE]
    [] OTHER ->
         [showBranch |-> TRUE, showStaged |-> TRUE, showUnstaged |-> TRUE,
          showUntracked |-> TRUE]

\* The glyphs of getIcons() (icons.ts), one character each in the model.
BranchIcon == "B"
GitIcon == "G"
ContextIcon == "D"
AutoIcon == "z"

\* Decimal digits of a natural number, as n.toString() gives them.
DigitChar(d) ==
  CASE d = 0 -> "0" [] d = 1 -> "1" [] d = 2 -> "2" [] d = 3 -> "3"
    [] d = 4 -> "4" [] d = 5 -> "5" [] d = 6 -> "6" [] d = 7 -> "7"
    [] d = 8 -> "8" [] d = 9 -> "9"

RECURSIVE NatToString(_)
NatToString(n) ==
  IF n < 10 THEN <<DigitChar(n)>>
  ELSE NatToString(n \div 10) \o <<DigitChar(n % 10)>>

\* withIcon(icon, text), the icon never being empty (icons.ts).
withIcon(icon, text) == <<icon, " ">> \o text

\* parts.join(" ")
RECURSIVE JoinWithSpace(_)
JoinWithSpace(parts) ==
  IF parts = <<>> THEN <<>>
  ELSE IF Len(parts) = 1 THEN Head(parts)
  ELSE Head(parts) \o <<" ">> \o JoinWithSpace(Tail(parts))

\* The indicators of gitSegment (lines 157-166), colour codes left out.
GitIndicators(git, opts) ==
  (IF opts.showUnstaged /\ git.unstaged > 0
   THEN << <<"*">> \o NatToString(git.unstaged) >> ELSE <<>>)
  \o (IF opts.showStaged /\ git.staged > 0
      THEN << <<"+">> \o NatToString(git.staged) >> ELSE <<>>)
  \o (IF opts.showUntracked /\ git.untracked > 0
      THEN << <<"?">> \o NatToString(git.untracked) >> ELSE <<>>)

\* gitSegment without the two returns of an invisible segment: it always
\* reports visible.
gitSegmentAlwaysVisible(git, opts) ==
  [content |-> IF opts.showBranch /\ Truthy(git.branch)
               THEN withIcon(BranchIcon, git.branch) ELSE <<>>,
   visible |-> TRUE]

\* gitSegment.render (segments.ts lines 132-182) on ctx.git and
\* ctx.options.git; git.branch is a text or Null.
gitSegment(git, opts) ==
  LET dirty == git.staged > 0 \/ git.unstaged > 0 \/ git.untracked > 0
      branchText == IF opts.showBranch /\ Truthy(git.branch)
                    THEN withIcon(BranchIcon, git.branch) ELSE <<>>
      indicators == IF dirty THEN GitIndicators(git, opts) ELSE <<>>
      indicatorText == JoinWithSpace(indicators)
      content ==
        IF indicators = <<>> THEN branchText
        ELSE IF branchText = <<>> /\ ~opts.showBranch
        THEN <<GitIcon, " ">> \o indicatorText
        ELSE IF branchText # <<>>
        THEN branchText \o <<" ">> \o indicatorText
        ELSE indicatorText
  IN  IF ~Truthy(git.branch) /\ ~dirty
      THEN [content |-> <<>>, visible |-> FALSE]
      ELSE IF content = <<>>
      THEN [content |-> <<>>, visible |-> FALSE]
      ELSE [content |-> content, visible |-> TRUE]

\* ctx.git as buildSegmentContext hands it over: the value getGitStatus
\* returned (index.ts lines 356-357, 369).
GitOf(r) ==
  [branch |-> r.branch, staged |-> r.counts.staged,
   unstaged |-> r.counts.unstaged, untracked |-> r.counts.untracked]

\* ---- context_pct: buildSegmentContext lines 347-353, contextPctSegment

\* ctx.model is undefined, or has no contextWindow.
NoWindow == -1

\* ctx.model?.contextWindow || 0 (index.ts line 352)
ContextWindowOf(w) == IF w = NoWindow THEN 0 ELSE w

\* Math.round(a / b) for naturals a and b > 0: halves go up.
RoundDiv(a, b) == (2 * a + b) \div (2 * b)

\* x.toFixed(1) for x = tenths / 10.
TenthsToString(tenths) ==
  NatToString(tenths \div 10) \o <<".", DigitChar(tenths % 10)>>

\* contextPercent = (contextTokens / contextWindow) * 100, or 0 without a
\* window (index.ts line 353), kept as the fraction num / den.
ContextPercent(tokens, window) ==
  IF window > 0 THEN [num |-> tokens * 100, den |-> window]
  ELSE [num |-> 0, den |-> 1]

\* pct.toFixed(1)
PercentToFixed1(pct) == TenthsToString(RoundDiv(pct.num * 10, pct.den))

\* formatTokens(n) (segments.ts lines 20-26)
formatTokens(n) ==
  IF n < 1000 THEN NatToString(n)
  ELSE IF n < 10000 THEN TenthsToString(RoundDiv(n, 100)) \o <<"k">>
  ELSE IF n < 1000000 THEN NatToString(RoundDiv(n, 1000)) \o <<"k">>
  ELSE IF n < 10000000 THEN TenthsToString(RoundDiv(n, 100000)) \o <<"M">>
  ELSE NatToString(RoundDiv(n, 1000000)) \o <<"M">>

\* The tiers with the critical one starting at 85%.
ContextTierCriticalFrom85(pct) ==
  IF pct.num >= 85 * pct.den THEN "contextError"
  ELSE IF pct.num > 70 * pct.den THEN "contextWarn"
  ELSE "context"

\* The semantic colour chosen in lines 305-311.
ContextTier(pct) ==
  IF pct.num > 90 * pct.den THEN "contextError"
  ELSE IF pct.num > 70 * pct.den THEN "contextWarn"
  ELSE "context"

\* The segment with a mark added to the text of the critical tier.
contextPctSegmentMarksCritical(pct, window, autoCompactEnabled) ==
  LET autoIcon == IF autoCompactEnabled THEN <<" ", AutoIcon>> ELSE <<>>
      text == PercentToFixed1(pct) \o <<"%", "/">> \o formatTokens(window)
                \o autoIcon
                \o (IF ContextTier(pct) = "contextError" THEN <<"!">> ELSE <<>>)
  IN  [done |-> TRUE, tier |-> ContextTier(pct), text |-> text,
       content |-> withIcon(ContextIcon, text), visible |-> TRUE]

\* contextPctSegment.render (segments.ts lines 293-315), colour codes left
\* out of the content and reported as the tier.
contextPctSegment(pct, window, autoCompactEnabled) ==
  LET autoIcon == IF autoCompactEnabled THEN <<" ", AutoIcon>> ELSE <<>>
      text == PercentToFixed1(pct) \o <<"%", "/">> \o formatTokens(window)
                \o autoIcon
  IN  [done |-> TRUE, tier |-> ContextTier(pct), text |-> text,
       content |-> withIcon(ContextIcon, text), visible |-> TRUE]

\* Token totals and context windows a session can show.
MaxTokenSteps == 20
TokenCounts == { 500 * k : k \in 0..MaxTokenSteps }
ContextWindows == { NoWindow, 8000, 10000, 200000 }

\* buildSegmentContext computes the percentage and the segment is rendered.
RenderContextPct ==
  /\ ~pctRendered.done
  /\ \E autoCompactEnabled \in BOOLEAN :
       LET window == ContextWindowOf(modelContextWindow)
       IN  pctRendered' = contextPctSegment(
             ContextPercent(contextTokens, window), window, autoCompactEnabled)
  /\ UNCHANGED <<parseVars, contextTokens, modelContextWindow, layoutVars,
                 vibeVars>>
  /\ UNCHANGED <<cacheVars, gitVars, panelVars>>

(***************************************************************************)
(* Responsive layout: index.ts lines 48-131                                *)
(***************************************************************************)

\* ANSI escape codes as single tokens of the text: getFgAnsiCode("sep"),
\* a segment's own colour, and ansi.reset.  They take no terminal column.
SepAnsi == "^sep"
ColorAnsi == "^fg"
AnsiReset == "^0"
AnsiCodes == {SepAnsi, ColorAnsi, AnsiReset}

\* visibleWidth(text) of pi-tui: the escape codes count for nothing, every
\* other character of the model's alphabet for one column.
RECURSIVE visibleWidth(_)
visibleWidth(text) ==
  IF text = <<>> THEN 0
  ELSE (IF Head(text) \in AnsiCodes THEN 0 ELSE 1) + visibleWidth(Tail(text))

\* renderSegmentWithWidth (lines 49-58) on the value renderSegment returned.
renderSegmentWithWidth(r) ==
  IF ~r.visible \/ r.content = <<>>
  THEN [content |-> <<>>, width |-> 0, visible |-> FALSE]
  ELSE [content |-> r.content, width |-> visibleWidth(r.content),
        visible |-> TRUE]

\* The loop of lines 92-97: the visible segments, in the preset's order.
RECURSIVE RenderedSegments(_)
RenderedSegments(rs) ==
  IF rs = <<>> THEN <<>>
  ELSE LET r == renderSegmentWithWidth(Head(rs))
       IN  (IF r.visible THEN <<[content |-> r.content, width |-> r.width]>>
            ELSE <<>>)
           \o RenderedSegments(Tail(rs))

\* parts.join(glue)
RECURSIVE JoinParts(_, _)
JoinParts(parts, glue) ==
  IF parts = <<>> THEN <<>>
  ELSE IF Len(parts) = 1 THEN Head(parts)
  ELSE Head(parts) \o glue \o JoinParts(Tail(parts), glue)

\* buildContentFromParts without the early return for no parts.
buildContentFromPartsNoEmptyCase(parts, sep) ==
  <<" ">> \o JoinParts(parts, <<" ", SepAnsi>> \o sep \o <<AnsiReset, " ">>)
    \o <<AnsiReset>> \o <<" ">>

\* buildContentFromParts (lines 61-70); sep is separatorDef.left.
buildContentFromParts(parts, sep) ==
  IF Len(parts) = 0 THEN <<>>
  ELSE <<" ">>
       \o JoinParts(parts, <<" ", SepAnsi>> \o sep \o <<AnsiReset, " ">>)
       \o <<AnsiReset>> \o <<" ">>

\* leading space + trailing space (line 105)
baseOverhead == 2

\* neededWidth without the separator.
NeededWidthNoSeparator(seg, topLength, sepWidth) == seg.width

\* neededWidth (line 114)
NeededWidth(seg, topLength, sepWidth) ==
  seg.width + (IF topLength > 0 THEN sepWidth ELSE 0)

\* The test of line 116 without the overflow flag.
FitsIgnoringOverflow(overflow, currentWidth, neededWidth, available) ==
  currentWidth + neededWidth <= available

\* The test of line 116.
Fits(overflow, currentWidth, neededWidth, available) ==
  ~overflow /\ currentWidth + neededWidth <= available

\* The loop of lines 111-125 from segment i on.  The state of the loop is
\* st = [currentWidth, topSegments, secondarySegments, overflow]; rows notes
\* for each segment the row it was put in.
RECURSIVE LayoutLoop(_, _, _, _, _)
LayoutLoop(segs, i, st, sepWidth, available) ==
  IF i > Len(segs) THEN st
  ELSE LET seg == segs[i]
           neededWidth == NeededWidth(seg, Len(st.topSegments), sepWidth)
       IN  IF Fits(st.overflow, st.currentWidth, neededWidth, available)
           THEN LayoutLoop(segs, i + 1,
                  [st EXCEPT !.topSegments = Append(@, seg.content),
                             !.currentWidth = @ + neededWidth,
                             !.rows = Append(@, "top")],
                  sepWidth, available)
           ELSE LayoutLoop(segs, i + 1,
                  [st EXCEPT !.overflow = TRUE,
                             !.secondarySegments = Append(@, seg.content),
                             !.rows = Append(@, "secondary")],
                  sepWidth, available)

\* A layout that keeps the primary row only.
computeResponsiveLayoutTopOnly(rs, sep, available) ==
  LET sepWidth == visibleWidth(sep) + 2
      segs == RenderedSegments(rs)
      st == LayoutLoop(segs, 1,
              [currentWidth |-> baseOverhead, topSegments |-> <<>>,
               secondarySegments |-> <<>>, overflow |-> FALSE, rows |-> <<>>],
              sepWidth, available)
  IN  [done |-> TRUE,
       topContent |-> buildContentFromParts(st.topSegments, sep),
       secondaryContent |-> <<>>,
       segments |-> segs, rows |-> st.rows, sepWidth |-> sepWidth]

\* computeResponsiveLayout (lines 77-131) on what renderSegment returned for
\* the preset's segment ids, primary ids first.  The result carries, next to
\* topContent and secondaryContent, the visible segments and their rows.
computeResponsiveLayout(rs, sep, available) ==
  LET sepWidth == visibleWidth(sep) + 2
      segs == RenderedSegments(rs)
      st == LayoutLoop(segs, 1,
              [currentWidth |-> baseOverhead, topSegments |-> <<>>,
               secondarySegments |-> <<>>, overflow |-> FALSE, rows |-> <<>>],
              sepWidth, available)
  IN  IF Len(segs) = 0
      THEN [done |-> TRUE, topContent |-> <<>>, secondaryContent |-> <<>>,
            segments |-> <<>>, rows |-> <<>>, sepWidth |-> sepWidth]
      ELSE [done |-> TRUE,
            topContent |-> buildContentFromParts(st.topSegments, sep),
            secondaryContent |->
              buildContentFromParts(st.secondarySegments, sep),
            segments |-> segs, rows |-> st.rows, sepWidth |-> sepWidth]

\* What a segment can render: nothing (not visible), an empty content, and
\* contents one, two, three and five columns wide, one of them coloured.
MaxSegments == 3
MaxWidth == 12
SegmentRenders ==
  { [content |-> <<>>, visible |-> FALSE],
    [content |-> <<>>, visible |-> TRUE],
    [content |-> <<"a">>, visible |-> TRUE],
    [content |-> <<ColorAnsi, "b", "b", AnsiReset>>, visible |-> TRUE],
    [content |-> <<"c", "c", "c">>, visible |-> TRUE],
    [content |-> <<"d", "d", "d", "d", "d">>, visible |-> TRUE] }

\* separatorDef.left of the styles "powerline-thin" and "slash" without
\* Nerd Fonts (separators.ts, icons.ts ASCII_SEPARATORS).
SeparatorLefts == { <<"|">>, <<" ", "/", " ">> }

\* The render of the secondary widget showing the row whatever its width.
SecondaryWidgetLinesAnyWidth(l, width) ==
  IF l.secondaryContent # <<>> THEN <<l.secondaryContent>> ELSE <<>>

\* What render(width) of the "powerline-secondary" widget returns for a
\* layout (index.ts lines 527-537): the secondary row if it is not empty and
\* not wider than the terminal, else no line.
SecondaryWidgetLines(l, width) ==
  IF l.secondaryContent # <<>>
  THEN IF visibleWidth(l.secondaryContent) <= width
       THEN <<l.secondaryContent>> ELSE <<>>
  ELSE <<>>

\* The render of the secondary widget on a layout computed for its width.
RenderSecondaryRow ==
  /\ ~layout.done
  /\ LET l == computeResponsiveLayout(rendered, separatorLeft, availableWidth)
     IN  layout' = [done |-> TRUE, topContent |-> l.topContent,
                    secondaryContent |-> l.secondaryContent,
                    segments |-> l.segments, rows |-> l.rows,
                    sepWidth |-> l.sepWidth,
                    lines |-> SecondaryWidgetLines(l, availableWidth)]
  /\ UNCHANGED <<rendered, separatorLeft, availableWidth>>
  /\ UNCHANGED <<parseVars, pctVars, vibeVars>>
  /\ UNCHANGED <<cacheVars, gitVars, panelVars>>

\* One layout pass.
ComputeLayout ==
  /\ ~layout.done
  /\ layout' = computeResponsiveLayout(rendered, separatorLeft, availableWidth)
  /\ UNCHANGED <<rendered, separatorLeft, availableWidth>>
  /\ UNCHANGED <<parseVars, pctVars, vibeVars>>
  /\ UNCHANGED <<cacheVars, gitVars, panelVars>>

\* Date.now() advances.
TickBy(ms, max) ==
  /\ now + ms <= max
  /\ now' = now + ms
  /\ ret' = NoRet
  /\ lastStart' = [branch |-> Forget(lastStart.branch, BRANCH_TTL_MS, now'),
                   status |-> Forget(lastStart.status, CACHE_TTL_MS, now')]
  /\ UNCHANGED <<cachedStatus, cachedBranch, pendingFetch, pendingBranchFetch,
                 invalidationCounter, branchInvalidationCounter, branchFetches,
                 statusFetches, source>>
  /\ UNCHANGED <<codexUsage, codexUsageInFlight, codexFetches>>

(***************************************************************************)
(* The powerline command, the editor setup and the layout cache: index.ts  *)
(***************************************************************************)

\* PRESETS (presets.ts lines 26-107): the segment ids and the separator
\* style of each preset; a preset without secondarySegments has none
\* (index.ts line 87).
PRESETS(preset) ==
  CASE preset = "default" ->
         [leftSegments |-> <<"pi", "model", "thinking", "path", "git", "context_pct", "cache_read", "codex">>,
          rightSegments |-> <<>>,
          secondarySegments |-> <<"extension_statuses">>,
          separator |-> "powerline-thin"]
    [] preset = "minimal" ->
         [leftSegments |-> <<"path", "git">>,
          rightSegments |-> <<"context_pct">>,
          secondarySegments |-> <<>>,
          separator |-> "slash"]
    [] preset = "compact" ->
         [leftSegments |-> <<"model", "git">>,
          rightSegments |-> <<"codex", "context_pct">>,
          secondarySegments |-> <<>>,
          separator |-> "powerline-thin"]
    [] preset = "full" ->
         [leftSegments |-> <<"pi", "hostname", "model", "thinking", "path", "git", "subagents">>,
          rightSegments |-> <<"token_in", "token_out", "cache_read", "codex", "context_pct", "time_spent", "time", "extension_statuses">>,
          secondarySegments |-> <<>>,
          separator |-> "powerline"]
    [] preset = "nerd" ->
         [leftSegments |-> <<"pi", "hostname", "model", "thinking", "path", "git", "session", "subagents">>,
          rightSegments |-> <<"token_in", "token_out", "cache_read", "cache_write", "codex", "context_pct", "context_total", "time_spent", "time", "extension_statuses">>,
          secondarySegments |-> <<>>,
          separator |-> "powerline"]
    [] preset = "ascii" ->
         [leftSegments |-> <<"model", "path", "git">>,
          rightSegments |-> <<"token_total", "codex", "context_pct">>,
          secondarySegments |-> <<>>,
          separator |-> "ascii"]
    [] preset = "custom" ->
         [leftSegments |-> <<"model", "path", "git">>,
          rightSegments |-> <<"token_total", "codex", "context_pct">>,
          secondarySegments |-> <<>>,
          separator |-> "powerline-thin"]

\* Property names every object inherits from Object.prototype.
ObjectPrototypeKeys == {"constructor", "__proto__", "toString", "valueOf"}

\* The characters of a property name.
NameText(key) ==
  CASE key = "default" -> <<"d", "e", "f", "a", "u", "l", "t">>
    [] key = "minimal" -> <<"m", "i", "n", "i", "m", "a", "l">>
    [] key = "compact" -> <<"c", "o", "m", "p", "a", "c", "t">>
    [] key = "full" -> <<"f", "u", "l", "l">>
    [] key = "nerd" -> <<"n", "e", "r", "d">>
    [] key = "ascii" -> <<"a", "s", "c", "i", "i">>
    [] key = "custom" -> <<"c", "u", "s", "t", "o", "m">>
    [] key = "constructor" -> <<"c", "o", "n", "s", "t", "r", "u", "c", "t", "o", "r">>
    [] key = "__proto__" -> <<"_", "_", "p", "r", "o", "t", "o", "_", "_">>
    [] key = "toString" -> <<"t", "o", "S", "t", "r", "i", "n", "g">>
    [] key = "valueOf" -> <<"v", "a", "l", "u", "e", "O", "f">>

\* String.prototype.toLowerCase, character by character.
toLowerCase1(c) ==
  CASE c = "A" -> "a"
    [] c = "B" -> "b"
    [] c = "C" -> "c"
    [] c = "D" -> "d"
    [] c = "E" -> "e"
    [] c = "F" -> "f"
    [] c = "G" -> "g"
    [] c = "H" -> "h"
    [] c = "I" -> "i"
    [] c = "J" -> "j"
    [] c = "K" -> "k"
    [] c = "L" -> "l"
    [] c = "M" -> "m"
    [] c = "N" -> "n"
    [] c = "O" -> "o"
    [] c = "P" -> "p"
    [] c = "Q" -> "q"
    [] c = "R" -> "r"
    [] c = "S" -> "s"
    [] c = "T" -> "t"
    [] c = "U" -> "u"
    [] c = "V" -> "v"
    [] c = "W" -> "w"
    [] c = "X" -> "x"
    [] c = "Y" -> "y"
    [] c = "Z" -> "z"
    [] OTHER -> c

RECURSIVE toLowerCase(_)
toLowerCase(text) ==
  IF text = <<>> THEN <<>>
  ELSE <<toLowerCase1(Head(text))>> \o toLowerCase(Tail(text))

\* `preset in PRESETS` (index.ts line 302): own keys and inherited ones.
KeysInPresets == PresetNames \cup ObjectPrototypeKeys
InPresets(text) == \E key \in KeysInPresets : NameText(key) = text
KeyOf(text) == CHOOSE key \in KeysInPresets : NameText(key) = text

\* PRESETS[name] for an inherited key: a value that is not nullish and has
\* no leftSegments.
NotAPresetDef == [inherited |-> TRUE]

\* getPreset (presets.ts lines 109-111): PRESETS[name] ?? PRESETS.default
getPreset(name) ==
  IF name \in PresetNames THEN PRESETS(name)
  ELSE IF name \in ObjectPrototypeKeys THEN NotAPresetDef
  ELSE PRESETS("default")

\* getSeparator(style).left (separators.ts, icons.ts ASCII_SEPARATORS); a
\* style that is undefined takes the default branch.
getSeparatorLeft(style) ==
  CASE style = "powerline" -> <<">">>
    [] style = "powerline-thin" -> <<"|">>
    [] style = "slash" -> <<" ", "/", " ">>
    [] style = "ascii" -> <<">">>
    [] OTHER -> <<"|">>

\* ---- renderSegment for a session that has no assistant message yet, no
\*      model, no extension statuses, and is less than a second old

Chars8 == <<"n", "o", "-", "m", "o", "d", "e", "l">>
Chars9 == <<"t", "h", "i", "n", "k", ":", "o", "f", "f">>

\* The keys of SEGMENTS (segments.ts lines 446-466).
SegmentRegistry ==
  {"pi", "model", "path", "git", "thinking", "subagents", "token_in",
   "token_out", "token_total", "codex", "context_pct", "context_total",
   "time_spent", "time", "session", "hostname", "cache_read", "cache_write",
   "extension_statuses"}

\* segment.render(ctx) on a value that has no render function.
Raised == [raised |-> "TypeError"]

\* renderSegment(id, ctx) (segments.ts lines 468-474) with the renderers of
\* lines 55-440; ctx carries git, the preset's options and codexUsage.
\* SEGMENTS[id] of a key every object inherits is not falsy and has no
\* render, so the call of line 473 raises; the registered ids without a
\* case of their own render nothing in such a session, like an id for
\* which SEGMENTS[id] is undefined.
renderSegment(id, ctx) ==
  CASE id \in ObjectPrototypeKeys -> Raised
    [] id = "pi" -> [content |-> <<"P", " ">>, visible |-> TRUE]
    [] id = "model" -> [content |-> withIcon("M", Chars8), visible |-> TRUE]
    [] id = "path" -> [content |-> withIcon("F", <<"w">>), visible |-> TRUE]
    [] id = "thinking" -> [content |-> Chars9, visible |-> TRUE]
    [] id = "git" ->
         gitSegment(ctx.git, ctx.gitOptions)
    [] id = "context_pct" ->
         LET r == contextPctSegment(ContextPercent(0, 0), 0, TRUE)
         IN  [content |-> r.content, visible |-> r.visible]
    [] id = "codex" ->
         IF ctx.codexUsage = NullEntry
         THEN [content |-> <<>>, visible |-> FALSE]
         ELSE [content |-> <<"c", "o", "d", "e", "x", ":">>
                  \o NatToString(ctx.codexUsage.remainingPercent) \o <<"%">>,
               visible |-> TRUE]
    [] id = "time" ->
         [content |-> withIcon("T", <<"1", "2", ":", "0", "0">>),
          visible |-> TRUE]
    [] id = "session" ->
         [content |-> withIcon("S", <<"n", "e", "w">>), visible |-> TRUE]
    [] id = "hostname" -> [content |-> withIcon("H", <<"h">>), visible |-> TRUE]
    [] OTHER -> [content |-> <<>>, visible |-> FALSE]

\* The segment ids of a preset, primary ids first (index.ts lines 86-88).
AllSegmentIds(presetDef) ==
  presetDef.leftSegments \o presetDef.rightSegments
    \o presetDef.secondarySegments

\* The layout of a preset for a git value and a width: what lines 389-395
\* compute, as [topContent, secondaryContent].
LayoutFor(preset, git, usage, width) ==
  LET presetDef == getPreset(preset)
      ids == AllSegmentIds(presetDef)
      ctx == [git |-> git, gitOptions |-> GitOptions(preset),
              codexUsage |-> usage]
      l == computeResponsiveLayout(
             [i \in 1..Len(ids) |-> renderSegment(ids[i], ctx)],
             getSeparatorLeft(presetDef.separator), width)
  IN  [topContent |-> l.topContent, secondaryContent |-> l.secondaryContent]

\* The segment ids a preset definition could list: registered ones that
\* render (pi, model), registered ones that render nothing outside a
\* repository and without a quota snapshot (git, codex), an id SEGMENTS
\* does not have, and a key every object inherits.
MaxIds == 3
IdsDrawn == {"pi", "model", "git", "codex", "nope", "constructor"}
IdWidths == {6, 20}

\* The context of a session outside a repository, without quota snapshot.
PlainContext ==
  [git |-> [branch |-> Null, staged |-> 0, unstaged |-> 0, untracked |-> 0],
   gitOptions |-> GitOptions("default"), codexUsage |-> NullEntry]

\* computeResponsiveLayout (index.ts lines 77-131) on a list of segment
\* ids: renderSegmentWithWidth is called for each id (line 93), and a
\* render that raises ends the pass.
LayoutOfIds(ids, sep, width) ==
  LET rs == [i \in 1..Len(ids) |-> renderSegment(ids[i], PlainContext)]
  IN  IF \E i \in 1..Len(ids) : rs[i] = Raised
      THEN [done |-> TRUE, ids |-> ids, sep |-> sep, width |-> width,
            op |-> "throw"]
      ELSE LET l == computeResponsiveLayout(rs, sep, width)
           IN  [done |-> TRUE, ids |-> ids, sep |-> sep, width |-> width,
                op |-> "layout", topContent |-> l.topContent,
                secondaryContent |-> l.secondaryContent,
                segments |-> l.segments, rows |-> l.rows]

\* One layout pass over a list of segment ids.
RenderSegmentIds ==
  /\ ~layout.done
  /\ \E n \in 0..MaxIds : \E ids \in [1..n -> IdsDrawn] :
       \E sep \in SeparatorLefts : \E width \in IdWidths :
         layout' = LayoutOfIds(ids, sep, width)
  /\ UNCHANGED <<rendered, separatorLeft, availableWidth>>
  /\ UNCHANGED <<parseVars, pctVars, vibeVars>>
  /\ UNCHANGED <<cacheVars, gitVars, panelVars>>

\* lastLayoutResult = null, and a host UI with none of the five surfaces.
NoLayout == [null |-> TRUE]
NoSurfaces ==
  [editor |-> FALSE, footer |-> FALSE, header |-> FALSE,
   secondary |-> FALSE, status |-> FALSE]

\* ---- getResponsiveLayout (index.ts lines 382-399)

\* The window of line 385.
LAYOUT_CACHE_MS == 50

\* Terminal widths.
Widths == {20, 60}

NotServed == [served |-> FALSE]

\* The cache test without the width.
LayoutCacheHitAnyWidth(width) ==
  /\ lastLayoutResult # NoLayout
  /\ now - lastLayoutTimestamp < LAYOUT_CACHE_MS

\* The cache test of line 385.
LayoutCacheHit(width) ==
  /\ lastLayoutResult # NoLayout
  /\ lastLayoutWidth = width
  /\ now - lastLayoutTimestamp < LAYOUT_CACHE_MS

\* footerDataRef?.getGitBranch() ?? null (line 356)
ProviderBranchesNow == IF footerDataRef THEN ProviderBranches ELSE {Null}

\* History of the layouts computed: per width the latest layout computed
\* less than LAYOUT_CACHE_MS ago with no preset set and no toggle since,
\* and whether a request with another width was made since.
OtherWidthAsked(width) ==
  [w \in Widths |->
     IF w # width /\ served[w].served
     THEN [served[w] EXCEPT !.other = TRUE] ELSE served[w]]

\* getResponsiveLayout(width).  On a miss
\* buildSegmentContext calls getGitStatus, lastLayoutWidth is assigned, and
\* computeResponsiveLayout throws a TypeError on a preset definition that
\* has no leftSegments, leaving result and timestamp as they were.
GetResponsiveLayoutCall(width) ==
  IF LayoutCacheHit(width)
  THEN /\ layoutRet' = [op |-> "layout", width |-> width,
                        hit |-> TRUE, result |-> lastLayoutResult]
       /\ served' = OtherWidthAsked(width)
       /\ UNCHANGED layoutCache
       /\ UNCHANGED cacheVars
  ELSE \E providerBranch \in ProviderBranchesNow :
         /\ GetGitStatusCall(providerBranch)
         /\ UNCHANGED <<codexUsage, codexUsageInFlight, codexFetches>>
         /\ lastLayoutWidth' = width
         /\ IF getPreset(configPreset) = NotAPresetDef
            THEN /\ layoutRet' = [op |-> "throw", width |-> width]
                 /\ served' = OtherWidthAsked(width)
                 /\ UNCHANGED <<lastLayoutResult, lastLayoutTimestamp>>
            ELSE /\ lastLayoutResult' =
                      LayoutFor(configPreset,
                        [branch |-> BranchReadValue(providerBranch),
                         staged |-> StatusReadCounts.staged,
                         unstaged |-> StatusReadCounts.unstaged,
                         untracked |-> StatusReadCounts.untracked],
                        codexUsage, width)
                 /\ lastLayoutTimestamp' = now
                 /\ layoutRet' = [op |-> "layout", width |-> width,
                                  hit |-> FALSE, result |-> lastLayoutResult']
                 /\ served' = [OtherWidthAsked(width) EXCEPT ![width] =
                      [served |-> TRUE, at |-> now, other |-> FALSE,
                       result |-> lastLayoutResult']]

\* editor.render(width) of the installed editor (lines 435-492): no layout
\* below 10 columns or without currentCtx.
RenderEditor ==
  \E width \in Widths :
    /\ surfaces.editor
    /\ width >= 10
    /\ currentCtx
    /\ GetResponsiveLayoutCall(width)
    /\ notice' = "none"
    /\ UNCHANGED <<configPreset, enabled, currentCtx, footerDataRef, tuiRef,
                   welcomeHeaderActive, surfaces, editorSetups>>
    /\ UNCHANGED <<gitVars, renderVars>>

\* render(width) of the "powerline-secondary" widget (lines 521-537).
RenderSecondaryWidget ==
  \E width \in Widths :
    /\ surfaces.secondary
    /\ currentCtx
    /\ GetResponsiveLayoutCall(width)
    /\ notice' = "none"
    /\ UNCHANGED <<configPreset, enabled, currentCtx, footerDataRef, tuiRef,
                   welcomeHeaderActive, surfaces, editorSetups>>
    /\ UNCHANGED <<gitVars, renderVars>>

\* ---- the handlers of index.ts

MaxSetups == 1
LayoutTickMs == 25
MaxLayoutTime == 60

NothingServed == [w \in Widths |-> NotServed]

\* setupCustomEditor(ctx) (lines 401-403): the dynamic import is started and
\* its then-callback will run later.
SetupCustomEditorCall == editorSetups' = editorSetups + 1

\* session_start (lines 173-198); the interval timer fires after five
\* minutes, and the time_spent segment shows after one second, both beyond
\* the times looked at here.
SessionStart ==
  \E hasUI \in BOOLEAN, quietStartup \in BOOLEAN :
    /\ currentCtx' = TRUE
    /\ RefreshCodexUsageCall
    /\ IF enabled /\ hasUI
       THEN /\ editorSetups < MaxSetups
            /\ SetupCustomEditorCall
            /\ IF quietStartup
               THEN /\ welcomeHeaderActive' = TRUE
                    /\ surfaces' = [surfaces EXCEPT !.header = TRUE]
               ELSE UNCHANGED <<welcomeHeaderActive, surfaces>>
       ELSE UNCHANGED <<editorSetups, welcomeHeaderActive, surfaces>>
    /\ layoutRet' = NoRet
    /\ notice' = "none"
    /\ UNCHANGED <<configPreset, enabled, footerDataRef, tuiRef, layoutCache,
                   served>>
    /\ UNCHANGED <<cachedStatus, cachedBranch, pendingFetch, pendingBranchFetch,
                   invalidationCounter, branchInvalidationCounter,
                   branchFetches, statusFetches, now, ret, source, lastStart>>
    /\ UNCHANGED <<gitVars, renderVars>>

\* The then-callback of the dynamic import in setupCustomEditor (lines
\* 403-571): the editor component, the footer and the two widgets are
\* installed; the host builds the footer, whose factory stores
\* footerDataRef and tuiRef.
EditorSetupFinishes ==
  /\ editorSetups > 0
  /\ editorSetups' = editorSetups - 1
  /\ surfaces' = [surfaces EXCEPT !.editor = TRUE, !.footer = TRUE,
                                  !.secondary = TRUE, !.status = TRUE]
  /\ footerDataRef' = TRUE
  /\ tuiRef' = TRUE
  /\ layoutRet' = NoRet
  /\ notice' = "none"
  /\ UNCHANGED <<configPreset, enabled, currentCtx, welcomeHeaderActive,
                 layoutCache, served>>
  /\ UNCHANGED <<cacheVars, gitVars, renderVars>>

\* dismissWelcome(ctx) (lines 255-260), called by user_message and tool_call.
DismissWelcome ==
  /\ IF welcomeHeaderActive
     THEN /\ welcomeHeaderActive' = FALSE
          /\ surfaces' = [surfaces EXCEPT !.header = FALSE]
     ELSE UNCHANGED <<welcomeHeaderActive, surfaces>>
  /\ layoutRet' = NoRet
  /\ notice' = "none"
  /\ UNCHANGED <<configPreset, enabled, currentCtx, footerDataRef, tuiRef,
                 layoutCache, editorSetups, served>>
  /\ UNCHANGED <<cacheVars, gitVars, renderVars>>

\* What the user can type after /powerline: nothing, a preset name with a
\* capital and a leading space, a name no preset has, and a name every
\* object inherits.
CommandArgs ==
  { <<>>,
    <<" ", "M", "i", "n", "i", "m", "a", "l">>,
    <<"n", "o", "p", "e">>,
    <<"c", "o", "n", "s", "t", "r", "u", "c", "t", "o", "r">> }

\* The preset branch keeping the cached layout (as before 0.2.12).
LayoutResultAfterPresetChangeKept(result) == result

\* lastLayoutResult = null (line 305)
LayoutResultAfterPresetChange(result) == NoLayout

\* The handler of the powerline command (lines 274-316).
PowerlineHandler(args) ==
  /\ currentCtx' = TRUE
  /\ IF args = <<>>
     THEN /\ enabled' = ~enabled
          /\ IF ~enabled
             THEN /\ editorSetups < MaxSetups
                  /\ SetupCustomEditorCall
                  /\ notice' = "Powerline enabled"
                  /\ UNCHANGED <<surfaces, footerDataRef, tuiRef, layoutCache>>
             ELSE /\ surfaces' = NoSurfaces
                  /\ footerDataRef' = FALSE
                  /\ tuiRef' = FALSE
                  /\ lastLayoutResult' = NoLayout
                  /\ notice' = "Defaults restored"
                  /\ UNCHANGED <<editorSetups, lastLayoutWidth,
                                 lastLayoutTimestamp>>
          /\ served' = NothingServed
          /\ UNCHANGED configPreset
     ELSE LET preset == toLowerCase(Trim(args))
          IN  IF InPresets(preset)
              THEN /\ configPreset' = KeyOf(preset)
                   /\ lastLayoutResult' =
                        LayoutResultAfterPresetChange(lastLayoutResult)
                   /\ IF enabled
                      THEN editorSetups < MaxSetups /\ SetupCustomEditorCall
                      ELSE UNCHANGED editorSetups
                   /\ notice' = "Preset set to"
                   /\ served' = NothingServed
                   /\ UNCHANGED <<enabled, surfaces, footerDataRef, tuiRef,
                                  lastLayoutWidth, lastLayoutTimestamp>>
              ELSE /\ notice' = "Available presets"
                   /\ UNCHANGED <<configPreset, enabled, surfaces,
                                  footerDataRef, tuiRef, layoutCache,
                                  editorSetups, served>>
  /\ layoutRet' = [op |-> "command", args |-> args, from |-> configPreset]
  /\ UNCHANGED welcomeHeaderActive
  /\ UNCHANGED <<cacheVars, gitVars, renderVars>>

PowerlineCommand == \E args \in CommandArgs : PowerlineHandler(args)

\* Date.now() advances by a fraction of the layout-cache window.
PanelTick ==
  /\ TickBy(LayoutTickMs, MaxLayoutTime)
  /\ served' = [w \in Widths |->
       IF served[w].served /\ now' - served[w].at >= LAYOUT_CACHE_MS
       THEN NotServed ELSE served[w]]
  /\ layoutRet' = NoRet
  /\ notice' = "none"
  /\ UNCHANGED <<configPreset, enabled, currentCtx, footerDataRef, tuiRef,
                 welcomeHeaderActive, layoutCache, surfaces, editorSetups>>
  /\ UNCHANGED <<gitVars, renderVars>>

(***************************************************************************)
(* Working vibes: working-vibes.ts lines 54-68 and 348-505, with a theme   *)
(* configured and initVibeManager called.  The host calls the exported     *)
(* functions in any order.                                                 *)
(***************************************************************************)

MaxGenerations == 3
MaxAgentEnds == 2
VibeTickMs == 30000
MaxVibeTime == 30000

\* config.refreshInterval (default, line 107)
refreshInterval == 30000

otherVars == <<cacheVars, gitVars, panelVars, parseVars, pctVars, layoutVars>>

\* controller.abort() on currentGeneration, if there is one.
AbortCurrent(cs) ==
  IF currentGeneration = 0 THEN cs
  ELSE [cs EXCEPT ![currentGeneration].aborted = TRUE]

\* The test of line 395 reading the streaming flag only.
MayApplyIgnoringAbort(controller) == isStreaming

\* The test of line 395: still streaming and this generation not aborted.
MayApply(controller) == isStreaming /\ ~controller.aborted

\* generateAndUpdate(prompt, setWorkingMessage) up to its await (lines
\* 364-390): file mode sets the next vibe of the file at once; generate
\* mode makes a controller, aborts the current one and awaits generateVibe.
GenerateAndUpdate(message) ==
  IF vibeMode = "file"
  THEN /\ workingMessage' = [kind |-> "file"]
       /\ UNCHANGED <<currentGeneration, controllers>>
  ELSE /\ Len(controllers) < MaxGenerations
       /\ controllers' =
            Append(AbortCurrent(controllers),
                   [aborted |-> FALSE, state |-> "awaited", ends |-> agentEnds])
       /\ currentGeneration' = Len(controllers) + 1
       /\ workingMessage' = message

\* onVibeBeforeAgentStart (lines 438-454)
OnVibeBeforeAgentStart ==
  /\ lastVibeTime' = now
  /\ GenerateAndUpdate([kind |-> "placeholder"])
  /\ UNCHANGED <<vibeMode, isStreaming, recentVibes, agentEnds>>
  /\ UNCHANGED otherVars

\* onVibeAgentStart (lines 456-458)
OnVibeAgentStart ==
  /\ isStreaming' = TRUE
  /\ UNCHANGED <<vibeMode, currentGeneration, lastVibeTime, recentVibes,
                 controllers, workingMessage, agentEnds>>
  /\ UNCHANGED otherVars

\* onVibeToolCall (lines 460-497): nothing when not streaming or within
\* the refresh interval.
OnVibeToolCall ==
  /\ IF ~isStreaming \/ now - lastVibeTime < refreshInterval
     THEN UNCHANGED <<lastVibeTime, currentGeneration, controllers,
                      workingMessage>>
     ELSE /\ lastVibeTime' = now
          /\ GenerateAndUpdate(workingMessage)
  /\ UNCHANGED <<vibeMode, isStreaming, recentVibes, agentEnds>>
  /\ UNCHANGED otherVars

\* onVibeAgentEnd (lines 499-505)
OnVibeAgentEnd ==
  /\ agentEnds < MaxAgentEnds
  /\ isStreaming' = FALSE
  /\ controllers' = AbortCurrent(controllers)
  /\ workingMessage' = [kind |-> "default"]
  /\ agentEnds' = agentEnds + 1
  /\ UNCHANGED <<vibeMode, currentGeneration, lastVibeTime, recentVibes>>
  /\ UNCHANGED otherVars

\* setVibeMode (lines 511-514)
SetVibeMode ==
  /\ \E mode \in {"generate", "file"} : vibeMode' = mode
  /\ UNCHANGED <<currentGeneration, isStreaming, lastVibeTime, recentVibes,
                 controllers, workingMessage, agentEnds>>
  /\ UNCHANGED otherVars

\* trackRecentVibe (lines 348-353) on the vibe of generation g.
trackRecentVibe(g) ==
  LET others == SelectSeq(recentVibes, LAMBDA v : v # g)
      all == <<g>> \o others
  IN  SubSeq(all, 1, IF Len(all) > 5 THEN 5 ELSE Len(all))

\* The await of generateVibe in generation g ends (lines 385-407): it
\* returns a vibe or the fallback text, whether or not its signal was
\* aborted meanwhile, or it throws (abort, timeout, failure).  The
\* controller's state records what became of the result: applied, stale
\* (returned after its controller was aborted) or dropped otherwise.
GenerationSettles ==
  \E g \in 1..Len(controllers) :
    /\ controllers[g].state = "awaited"
    /\ \E outcome \in {"vibe", "fallback", "throw"} :
         IF outcome # "throw" /\ MayApply(controllers[g])
         THEN /\ recentVibes' =
                   IF outcome = "fallback" THEN recentVibes
                   ELSE trackRecentVibe(g)
              /\ workingMessage' = [kind |-> outcome, gen |-> g]
              /\ controllers' = [controllers EXCEPT ![g].state = "applied"]
         ELSE /\ UNCHANGED <<recentVibes, workingMessage>>
              /\ controllers' =
                   [controllers EXCEPT ![g].state =
                      IF outcome # "throw" /\ controllers[g].aborted
                      THEN "stale" ELSE "dropped"]
    /\ UNCHANGED <<vibeMode, currentGeneration, isStreaming, lastVibeTime,
                   agentEnds>>
    /\ UNCHANGED otherVars

\* Date.now() advances by a refresh interval.
VibeTick ==
  /\ TickBy(VibeTickMs, MaxVibeTime)
  /\ UNCHANGED <<gitVars, panelVars, parseVars, pctVars, layoutVars>>
  /\ UNCHANGED vibeVars

\* Module load (lines 54-58, 68) and a configured theme in generate mode.
VibeInit ==
  /\ vibeMode = "generate"
  /\ currentGeneration = 0
  /\ isStreaming = FALSE
  /\ lastVibeTime = 0
  /\ recentVibes = <<>>
  /\ controllers = <<>>
  /\ workingMessage = [kind |-> "default"]
  /\ agentEnds = 0

VibeNext ==
  \/ OnVibeBeforeAgentStart
  \/ OnVibeAgentStart
  \/ OnVibeToolCall
  \/ OnVibeAgentEnd
  \/ SetVibeMode
  \/ GenerationSettles
  \/ VibeTick

(***************************************************************************)
(* Time, initial states, specifications                                    *)
(***************************************************************************)

\* Date.now() advances by a tick of the freshness cache.
Tick == TickBy(TickMs, MaxTime) /\ UNCHANGED <<gitVars, uiVars>>

\* Module load of git-status.ts (lines 18-23) and the closure of powerlineFooter.
CacheInit ==
  /\ cachedStatus = NullEntry
  /\ cachedBranch = NullEntry
  /\ pendingFetch = NoPromise
  /\ pendingBranchFetch = NoPromise
  /\ invalidationCounter = 0
  /\ branchInvalidationCounter = 0
  /\ branchFetches = <<>>
  /\ statusFetches = <<>>
  /\ now = 0
  /\ ret = NoRet
  /\ source = [branch |-> -1, status |-> -1]
  /\ lastStart = [branch |-> NoStart, status |-> NoStart]
  /\ codexUsage = NullEntry
  /\ codexUsageInFlight = NoPromise
  /\ codexFetches = <<>>

\* No runGit and no fetchGitBranch call has been made.
GitInit ==
  /\ proc = NoProc
  /\ stdout = <<>>
  /\ resolved = FALSE
  /\ timeoutId = "none"
  /\ settled = Pending
  /\ resolveCalls = 0
  /\ firstEvent = NoEvent
  /\ fgbPc = "idle"
  /\ fgbBranch = Pending
  /\ fgbSha = NotCalled
  /\ fgbResult = Pending
  /\ fgbCalls = 0

\* Nothing has been parsed or rendered.
NotYet == [done |-> FALSE]
ParseIdle == porcelain = <<>> /\ parsed = NotYet
ContextIdle ==
  contextTokens = 0 /\ modelContextWindow = 0 /\ pctRendered = NotYet

LayoutIdle ==
  /\ rendered = <<>>
  /\ separatorLeft = <<"|">>
  /\ availableWidth = 0
  /\ layout = NotYet

\* Module load of index.ts and the call of powerlineFooter(pi): lines 25-27
\* and 138-154; nothing is installed in the host's UI yet.
PanelInit ==
  /\ configPreset = "default"
  /\ enabled = TRUE
  /\ currentCtx = FALSE
  /\ footerDataRef = FALSE
  /\ tuiRef = FALSE
  /\ welcomeHeaderActive = FALSE
  /\ lastLayoutWidth = 0
  /\ lastLayoutResult = NoLayout
  /\ lastLayoutTimestamp = 0
  /\ surfaces = NoSurfaces
  /\ editorSetups = 0
  /\ notice = "none"
  /\ layoutRet = NoRet
  /\ served = [w \in Widths |-> NotServed]

Init ==
  /\ CacheInit /\ GitInit /\ ParseIdle /\ ContextIdle /\ LayoutIdle /\ PanelInit
  /\ VibeInit

\* The parser applied to each text of PorcelainTexts.
ParseInit ==
  /\ CacheInit /\ GitInit /\ ContextIdle /\ LayoutIdle /\ PanelInit
  /\ VibeInit
  /\ porcelain \in PorcelainTexts
  /\ parsed = NotYet

ParseNext == ParseStatus

ParseSpec == ParseInit /\ [][ParseNext]_vars

\* The status counts obtained through the gateway for each text.
GatewayNext == FetchGitStatus

GatewaySpec == ParseInit /\ [][GatewayNext]_vars

\* The context_pct segment rendered for each usage and window.
ContextInit ==
  /\ CacheInit /\ GitInit /\ ParseIdle /\ LayoutIdle /\ PanelInit
  /\ VibeInit
  /\ contextTokens \in TokenCounts
  /\ modelContextWindow \in ContextWindows
  /\ pctRendered = NotYet

ContextNext == RenderContextPct

ContextSpec == ContextInit /\ [][ContextNext]_vars

\* The layout pass applied to each list of segments, separator and width.
LayoutInit ==
  /\ CacheInit /\ GitInit /\ ParseIdle /\ ContextIdle /\ PanelInit
  /\ VibeInit
  /\ rendered \in UNION { [1..n -> SegmentRenders] : n \in 0..MaxSegments }
  /\ separatorLeft \in SeparatorLefts
  /\ availableWidth \in 0..MaxWidth
  /\ layout = NotYet

LayoutNext == ComputeLayout \/ RenderSecondaryRow

LayoutSpec == LayoutInit /\ [][LayoutNext]_vars

\* The layout pass applied to lists of segment ids.
SegmentNext == RenderSegmentIds

SegmentSpec == Init /\ [][SegmentNext]_vars

\* The surfaces of the extension: the session start, the command, the
\* editor setup and the dismissal of the welcome header.
PanelNext ==
  \/ SessionStart
  \/ PowerlineCommand
  \/ EditorSetupFinishes
  \/ DismissWelcome

PanelSpec == Init /\ [][PanelNext]_vars

\* The layout cache: the renders of the installed editor and widget, the
\* command, the status fetch a render starts, and the clock.
LayoutCacheNext ==
  \/ SessionStart
  \/ PowerlineCommand
  \/ EditorSetupFinishes
  \/ RenderEditor
  \/ RenderSecondaryWidget
  \/ StatusQuerySettles
  \/ PanelTick

LayoutCacheSpec == Init /\ [][LayoutCacheNext]_vars

\* The freshness cache of git-status.ts.
Next ==
  \/ GetCurrentBranch
  \/ GetGitStatus
  \/ InvalidateGitStatus
  \/ InvalidateGitBranch
  \/ BranchChangingCommand
  \/ BranchQuerySettles
  \/ ShaLookupSettles
  \/ StatusQuerySettles
  \/ Tick

Spec == Init /\ [][Next]_vars

\* The quota refresh next to the session start, the command and the editor
\* setup, which set and clear the TUI reference.
CodexNext ==
  \/ SessionStart
  \/ PowerlineCommand
  \/ EditorSetupFinishes
  \/ RefreshCodexUsage
  \/ CodexFetchSettles

CodexSpec == Init /\ [][CodexNext]_vars

\* The three cached resource kinds: the freshness cache and the quota refresh.
KindsNext ==
  \/ GetCurrentBranch
  \/ GetGitStatus
  \/ InvalidateGitStatus
  \/ InvalidateGitBranch
  \/ BranchChangingCommand
  \/ BranchQuerySettles
  \/ ShaLookupSettles
  \/ StatusQuerySettles
  \/ RefreshCodexUsage
  \/ CodexFetchSettles
  \/ Tick

KindsSpec == Init /\ [][KindsNext]_vars

VibeSpec == Init /\ [][VibeNext]_vars

\* The events that invalidate, with the reads and the fetches of the cache.
EventNext ==
  \/ ToolResult
  \/ UserBash
  \/ GetCurrentBranch
  \/ GetGitStatus
  \/ BranchQuerySettles
  \/ ShaLookupSettles
  \/ StatusQuerySettles

EventSpec == Init /\ [][EventNext]_vars

\* The gateway: one fetchGitBranch call after the other, each with its runGit calls.
GitNext ==
  \/ FetchGitBranchCall
  \/ OnData
  \/ OnClose
  \/ OnError
  \/ OnTimeout
  \/ FetchGitBranchResume
  \/ FetchGitBranchShaResume

GitSpec == Init /\ [][GitNext]_vars

\* Every gateway call settles (runGit's timer sees to it), so a running
\* fetch takes its next step.
FairSpec ==
  /\ Spec
  /\ WF_vars(BranchQuerySettles)
  /\ WF_vars(ShaLookupSettles)
  /\ WF_vars(StatusQuerySettles)

\* Besides, the footer keeps being rendered, so the two reads keep being
\* made.
ReadFairSpec ==
  /\ FairSpec
  /\ WF_vars(GetCurrentBranch)
  /\ WF_vars(GetGitStatus)

(***************************************************************************)
(* Properties of the freshness cache                                       *)
(***************************************************************************)

ReadOps == {"getCurrentBranch", "getGitStatus"}

\* C1: the result of a background fetch is written into the cache only if
\* the kind's invalidation counter at completion equals the value captured
\* at the fetch's start; otherwise the entry is left exactly as it was.  A
\* step that ends a fetch writes a new entry stamped with the current time
\* when the two are equal and leaves the entry alone when they differ, and
\* no other step puts an entry into the cache.
CommitOnlyIfGenerationUnchanged ==
  [][ /\ \A i \in 1..Len(branchFetches) :
           branchFetches' = RemoveAt(branchFetches, i) =>
             IF branchFetches[i].fetchId = branchInvalidationCounter
             THEN /\ cachedBranch' # NullEntry
                  /\ cachedBranch'.timestamp = now
                  /\ source'.branch = branchFetches[i].fetchId
             ELSE cachedBranch' = cachedBranch
      /\ \A i \in 1..Len(statusFetches) :
           statusFetches' = RemoveAt(statusFetches, i) =>
             IF statusFetches[i].fetchId = invalidationCounter
             THEN /\ cachedStatus' # NullEntry
                  /\ cachedStatus'.timestamp = now
                  /\ source'.status = statusFetches[i].fetchId
             ELSE cachedStatus' = cachedStatus
      /\ (cachedBranch' # cachedBranch /\ cachedBranch' # NullEntry) =>
           \E i \in 1..Len(branchFetches) :
             /\ branchFetches' = RemoveAt(branchFetches, i)
             /\ branchFetches[i].fetchId = branchInvalidationCounter
      /\ (cachedStatus' # cachedStatus /\ cachedStatus' # NullEntry) =>
           \E i \in 1..Len(statusFetches) :
             /\ statusFetches' = RemoveAt(statusFetches, i)
             /\ statusFetches[i].fetchId = invalidationCounter
    ]_vars

\* A branch fetch was started, the branch was invalidated while it ran, and
\* it has ended with its result discarded; a status fetch has been committed.
DiscardedAndCommitted ==
  /\ lastStart.branch.started
  /\ lastStart.branch.invalidated
  /\ lastStart.branch.outcome # "running"
  /\ cachedBranch = NullEntry
  /\ pendingBranchFetch = NoPromise
  /\ cachedStatus # NullEntry
  /\ source.status = invalidationCounter

\* C2: a read made after an invalidation never returns a value produced by
\* a fetch started before that invalidation: what a read returns is the
\* caller's fallback (the entry is empty) or the value of the entry, and
\* an entry in the cache was written by a fetch started at the current
\* generation, that is after the latest invalidation.
ReadNeverSeesPreInvalidationFetch ==
  /\ cachedBranch # NullEntry => source.branch = branchInvalidationCounter
  /\ cachedStatus # NullEntry => source.status = invalidationCounter
  /\ ret.op \in ReadOps =>
       IF cachedBranch = NullEntry
       THEN ret.branch = ret.provider
       ELSE ret.branch = cachedBranch.branch
  /\ ret.op = "getGitStatus" =>
       IF cachedStatus = NullEntry
       THEN ret.counts = ZeroCounts
       ELSE ret.counts = [staged |-> cachedStatus.staged,
                          unstaged |-> cachedStatus.unstaged,
                          untracked |-> cachedStatus.untracked]

\* A read has just returned the fallback while fetches started before the
\* latest invalidation are still in flight for both kinds.
ReadWithOldFetchInFlight ==
  /\ ret.op = "getGitStatus"
  /\ Len(statusFetches) = 1
  /\ statusFetches[1].fetchId < invalidationCounter
  /\ Len(branchFetches) = 1
  /\ branchFetches[1].fetchId < branchInvalidationCounter
  /\ ret.branch = ret.provider
  /\ ret.counts = ZeroCounts

\* C3: at most one fetch is in flight per resource kind (branch, status,
\* remote quota), and the in-flight marker is set exactly while it is.
AtMostOneFetchInFlight ==
  /\ Len(branchFetches) <= 1
  /\ Len(statusFetches) <= 1
  /\ Len(codexFetches) <= 1
  /\ (pendingBranchFetch = APromise) = (Len(branchFetches) = 1)
  /\ (pendingFetch = APromise) = (Len(statusFetches) = 1)
  /\ (codexUsageInFlight = APromise) = (Len(codexFetches) = 1)

\* A read has just been made while the fetches of all kinds are in flight,
\* those of the git kinds started before an invalidation.
ReadWhileAllInFlight ==
  /\ ret.op = "getGitStatus"
  /\ pendingBranchFetch = APromise
  /\ pendingFetch = APromise
  /\ codexUsageInFlight = APromise
  /\ codexUsage # NullEntry
  /\ lastStart.branch.started /\ lastStart.branch.invalidated
  /\ lastStart.status.started /\ lastStart.status.invalidated

\* C4: a read made while the entry's age is below the kind's TTL (500 ms
\* for the branch, 1000 ms for the status, counted from the commit) returns
\* the cached value and starts no fetch for that kind.
FreshReadStartsNoFetch ==
  [][ /\ ( /\ ret'.op \in ReadOps
           /\ cachedBranch # NullEntry
           /\ now - cachedBranch.timestamp < 500 ) =>
             /\ ret'.branch = cachedBranch.branch
             /\ branchFetches' = branchFetches
             /\ pendingBranchFetch' = pendingBranchFetch
      /\ ( /\ ret'.op = "getGitStatus"
           /\ cachedStatus # NullEntry
           /\ now - cachedStatus.timestamp < 1000 ) =>
             /\ ret'.counts = [staged |-> cachedStatus.staged,
                               unstaged |-> cachedStatus.unstaged,
                               untracked |-> cachedStatus.untracked]
             /\ statusFetches' = statusFetches
             /\ pendingFetch' = pendingFetch
    ]_vars

\* A read has just been answered from a status entry 500 ms old and a branch
\* entry just committed, and no fetch is in flight.
FreshReadDone ==
  /\ ret.op = "getGitStatus"
  /\ cachedStatus # NullEntry
  /\ now - cachedStatus.timestamp = 500
  /\ ret.counts.untracked = cachedStatus.untracked
  /\ ret.counts.untracked = 1
  /\ cachedBranch # NullEntry
  /\ now = cachedBranch.timestamp
  /\ ret.branch = cachedBranch.branch
  /\ branchFetches = <<>>
  /\ statusFetches = <<>>

\* C5: a read never waits for a fetch.  When the entry is missing or its
\* age has reached the TTL, the read leaves the entry as it is, starts a
\* fetch at the current generation if none is in flight for the kind (and
\* none if one is), and returns in the same step the cached value if an
\* entry exists, stale as it is, and the caller's fallback (the provider
\* branch, zero counts) only when there is none.
StaleReadReturnsAtOnce ==
  [][ /\ ( /\ ret'.op \in ReadOps
           /\ (cachedBranch = NullEntry \/ now - cachedBranch.timestamp >= 500) ) =>
             /\ cachedBranch' = cachedBranch
             /\ pendingBranchFetch' = APromise
             /\ branchFetches' =
                  IF pendingBranchFetch = NoPromise
                  THEN Append(branchFetches,
                         [fetchId |-> branchInvalidationCounter, pc |-> "branch"])
                  ELSE branchFetches
             /\ ret'.branch = IF cachedBranch # NullEntry
                              THEN cachedBranch.branch ELSE ret'.provider
      /\ ( /\ ret'.op = "getGitStatus"
           /\ (cachedStatus = NullEntry \/ now - cachedStatus.timestamp >= 1000) ) =>
             /\ cachedStatus' = cachedStatus
             /\ pendingFetch' = APromise
             /\ statusFetches' =
                  IF pendingFetch = NoPromise
                  THEN Append(statusFetches, [fetchId |-> invalidationCounter])
                  ELSE statusFetches
             /\ ret'.counts = IF cachedStatus # NullEntry
                              THEN [staged |-> cachedStatus.staged,
                                    unstaged |-> cachedStatus.unstaged,
                                    untracked |-> cachedStatus.untracked]
                              ELSE ZeroCounts
    ]_vars

\* A read has just returned a stale branch (not the provider's) and stale
\* counts, and fetches of both kinds are in flight.
StaleReadDone ==
  /\ ret.op = "getGitStatus"
  /\ cachedBranch # NullEntry
  /\ now - cachedBranch.timestamp >= 500
  /\ ret.branch = cachedBranch.branch
  /\ ret.branch # ret.provider
  /\ cachedStatus # NullEntry
  /\ now - cachedStatus.timestamp >= 1000
  /\ ret.counts.untracked = 1
  /\ Len(branchFetches) = 1
  /\ Len(statusFetches) = 1

\* No running status (branch) fetch was started at the current generation.
NoCurrentStatusFetch ==
  \A i \in 1..Len(statusFetches) : statusFetches[i].fetchId # invalidationCounter
NoCurrentBranchFetch ==
  \A i \in 1..Len(branchFetches) :
    branchFetches[i].fetchId # branchInvalidationCounter

\* C6: invalidate for one kind empties that kind's entry and raises that
\* kind's counter by exactly one, so that the next read of the kind returns
\* the caller's fallback; it leaves the other kind's entry and counter and
\* both in-flight markers unchanged, and the counters never decrease.  The
\* next read gets the fallback because the invalidation leaves no running
\* fetch of the new generation, an empty entry with no such fetch stays so
\* until a read of the kind is made, and a read of an empty entry returns
\* the fallback.
InvalidateClearsOneKind ==
  [][ /\ invalidationCounter' >= invalidationCounter
      /\ branchInvalidationCounter' >= branchInvalidationCounter
      /\ invalidationCounter' # invalidationCounter =>
           /\ invalidationCounter' = invalidationCounter + 1
           /\ cachedStatus' = NullEntry
           /\ NoCurrentStatusFetch'
           /\ pendingFetch' = pendingFetch
           /\ pendingBranchFetch' = pendingBranchFetch
           /\ branchInvalidationCounter' = branchInvalidationCounter =>
                cachedBranch' = cachedBranch
      /\ branchInvalidationCounter' # branchInvalidationCounter =>
           /\ branchInvalidationCounter' = branchInvalidationCounter + 1
           /\ cachedBranch' = NullEntry
           /\ NoCurrentBranchFetch'
           /\ pendingFetch' = pendingFetch
           /\ pendingBranchFetch' = pendingBranchFetch
           /\ invalidationCounter' = invalidationCounter =>
                cachedStatus' = cachedStatus
      /\ (cachedStatus = NullEntry /\ NoCurrentStatusFetch) =>
           IF ret'.op = "getGitStatus"
           THEN ret'.counts = ZeroCounts
           ELSE cachedStatus' = NullEntry /\ NoCurrentStatusFetch'
      /\ (cachedBranch = NullEntry /\ NoCurrentBranchFetch) =>
           IF ret'.op \in ReadOps
           THEN ret'.branch = ret'.provider
           ELSE cachedBranch' = NullEntry /\ NoCurrentBranchFetch'
    ]_vars

\* The status alone was invalidated while its fetch was in flight and a
\* branch entry was cached; the next read has returned zero counts together
\* with the cached branch.
ReadAfterStatusInvalidation ==
  /\ ret.op = "getGitStatus"
  /\ invalidationCounter = 1
  /\ branchInvalidationCounter = 0
  /\ cachedStatus = NullEntry
  /\ ret.counts = ZeroCounts
  /\ cachedBranch # NullEntry
  /\ cachedBranch.branch = <<"m">>
  /\ ret.branch = <<"m">>
  /\ Len(statusFetches) = 1
  /\ statusFetches[1].fetchId = 0

\* C7: every fetch that is started clears its kind's in-flight marker when
\* it ends, whatever the outcome (committed, discarded by the generation
\* check, gateway failure), so no kind stays marked as in flight: a marker
\* that is set is eventually cleared.
MarkerEventuallyCleared ==
  /\ (pendingBranchFetch = APromise) ~> (pendingBranchFetch = NoPromise)
  /\ (pendingFetch = APromise) ~> (pendingFetch = NoPromise)

\* A branch fetch that failed has been committed and a status fetch has been
\* discarded, both markers are clear again, and a later read has started a
\* new status fetch.
MarkersClearedAfterEveryOutcome ==
  /\ cachedBranch # NullEntry
  /\ cachedBranch.branch = Null
  /\ lastStart.branch.started
  /\ lastStart.branch.outcome = "failed"
  /\ pendingBranchFetch = NoPromise
  /\ invalidationCounter = 1
  /\ cachedStatus = NullEntry
  /\ Len(statusFetches) = 1
  /\ statusFetches[1].fetchId = 1
  /\ pendingFetch = APromise

\* The latest fetch of the kind, started within the kind's TTL window, has
\* ended with a gateway failure.
BranchFetchFailed ==
  lastStart.branch.started /\ lastStart.branch.outcome = "failed"
StatusFetchFailed ==
  lastStart.status.started /\ lastStart.status.outcome = "failed"

\* A failed gateway result is committed as a valid value: null for the
\* branch, zero counts for the status, stamped with the current time.
FailureIsCommitted ==
  /\ \A i \in 1..Len(branchFetches) :
       ( /\ branchFetches' = RemoveAt(branchFetches, i)
         /\ BranchFetchFailed'
         /\ branchFetches[i].fetchId = branchInvalidationCounter ) =>
           cachedBranch' = [branch |-> Null, timestamp |-> now]
  /\ \A i \in 1..Len(statusFetches) :
       ( /\ statusFetches' = RemoveAt(statusFetches, i)
         /\ StatusFetchFailed'
         /\ statusFetches[i].fetchId = invalidationCounter ) =>
           cachedStatus' = [staged |-> 0, unstaged |-> 0, untracked |-> 0,
                            timestamp |-> now]

\* Once a failure is committed, a read within the TTL returns it as a value
\* (null, not the provider's branch; zero counts) and starts no fetch.
FailureIsServedFromCache ==
  /\ ( /\ ret'.op \in ReadOps
       /\ cachedBranch # NullEntry
       /\ cachedBranch.branch = Null
       /\ now - cachedBranch.timestamp < 500 ) =>
         /\ ret'.branch = Null
         /\ branchFetches' = branchFetches
  /\ ( /\ ret'.op = "getGitStatus"
       /\ cachedStatus # NullEntry
       /\ StatusFetchFailed
       /\ ~lastStart.status.invalidated
       /\ now - cachedStatus.timestamp < 1000 ) =>
         /\ ret'.counts = ZeroCounts
         /\ statusFetches' = statusFetches

\* C8 as stated: a failed or empty gateway result is committed as a valid
\* cache value; once committed, reads within the TTL start no further fetch,
\* so where the gateway fails (a non-repository directory) no more than one
\* fetch per kind is started per TTL window: no fetch starts while the
\* failed fetch before it was started less than a TTL ago.
OneFetchPerTtlWindow ==
  [][ /\ FailureIsCommitted
      /\ FailureIsServedFromCache
      /\ Len(branchFetches') > Len(branchFetches) => ~BranchFetchFailed
      /\ Len(statusFetches') > Len(statusFetches) => ~StatusFetchFailed
    ]_vars

\* C8, amended: a failed or empty gateway result is committed as a valid
\* cache value; once committed, reads within the TTL start no further fetch,
\* so where the gateway fails no more than one fetch per kind is started per
\* TTL window unless the kind is invalidated in between: a fetch that starts
\* less than a TTL after the start of a failed one follows an invalidation.
OneFetchPerTtlWindowUnlessInvalidated ==
  [][ /\ FailureIsCommitted
      /\ FailureIsServedFromCache
      /\ (Len(branchFetches') > Len(branchFetches) /\ BranchFetchFailed) =>
           lastStart.branch.invalidated
      /\ (Len(statusFetches') > Len(statusFetches) /\ StatusFetchFailed) =>
           lastStart.status.invalidated
    ]_vars

\* Both gateway calls failed and the failures are cached; a read has just
\* returned the null branch and zero counts, 500 ms after the status fetch
\* and right after a second branch fetch, and has started nothing.
FailureServedWithinTtl ==
  /\ ret.op = "getGitStatus"
  /\ cachedBranch # NullEntry
  /\ cachedBranch.branch = Null
  /\ ret.branch = Null
  /\ BranchFetchFailed
  /\ cachedStatus # NullEntry
  /\ now - cachedStatus.timestamp = 500
  /\ StatusFetchFailed
  /\ ~lastStart.status.invalidated
  /\ ret.counts = ZeroCounts
  /\ branchFetches = <<>>
  /\ statusFetches = <<>>

(***************************************************************************)
(* Properties of the gateway                                               *)
(***************************************************************************)

\* C9: runGit resolves exactly once and never rejects: with the trimmed
\* standard output when the process closes with exit code 0, and with null
\* on a non-zero exit, a spawn error or the timeout (on which the process
\* is killed).  The first of close, error and timeout fixes the result and
\* later events do not change it; until then the timer stays armed, so the
\* promise cannot stay unsettled.
RunGitResolvesOnce ==
  /\ resolveCalls <= 1
  /\ resolved = (resolveCalls = 1)
  /\ resolved = (firstEvent.ev # "none")
  /\ ~resolved => settled = Pending
  /\ (proc.state = "running" /\ ~resolved) => timeoutId = "armed"
  /\ proc.state = "closed" => resolved
  /\ resolved =>
       /\ settled = IF firstEvent.ev = "close" /\ firstEvent.code = 0
                    THEN Trim(firstEvent.out) ELSE Null
       /\ timeoutId # "armed"
  /\ firstEvent.ev = "timeout" => proc.killed

\* The timeout settled the promise with null and killed the process; output
\* and a close with exit code 0 arrived afterwards and changed nothing.
LateCloseAfterTimeout ==
  /\ firstEvent.ev = "timeout"
  /\ proc.killed
  /\ proc.state = "closed"
  /\ stdout = <<"m", "\n">>
  /\ firstEvent.out = <<>>
  /\ settled = Null
  /\ resolveCalls = 1

\* C10 as stated: when the branch query returns null the result is null and
\* no second gateway call is made; a non-empty name is the result; on the
\* empty string a second lookup is made and the result is "<sha> (detached)".
BranchResolutionAsStated ==
  fgbPc = "done" =>
    /\ fgbBranch = Null => (fgbResult = Null /\ fgbCalls = 1)
    /\ Truthy(fgbBranch) => (fgbResult = fgbBranch /\ fgbCalls = 1)
    /\ fgbBranch = <<>> =>
         (fgbCalls = 2 /\ fgbResult = fgbSha \o DetachedSuffix)

\* C10, amended: when the branch query returns null the result is null and
\* no second gateway call is made; a non-empty name is the result; on the
\* empty string a second lookup is made and the result is "<sha> (detached)"
\* when that lookup gives a non-empty sha, and the bare "detached" when it
\* fails or gives nothing.
BranchResolution ==
  fgbPc = "done" =>
    /\ fgbBranch = Null =>
         (fgbResult = Null /\ fgbCalls = 1 /\ fgbSha = NotCalled)
    /\ Truthy(fgbBranch) =>
         (fgbResult = fgbBranch /\ fgbCalls = 1 /\ fgbSha = NotCalled)
    /\ fgbBranch = <<>> =>
         /\ fgbCalls = 2
         /\ fgbSha # NotCalled
         /\ Truthy(fgbSha) => fgbResult = fgbSha \o DetachedSuffix
         /\ ~Truthy(fgbSha) => fgbResult = DetachedOnly

\* The branch query printed only a line end (detached HEAD), the lookup
\* printed the sha a1, and the branch resolved to "a1 (detached)".
DetachedHeadResolved ==
  /\ fgbPc = "done"
  /\ fgbBranch = <<>>
  /\ fgbCalls = 2
  /\ fgbSha = <<"a", "1">>
  /\ fgbResult = <<"a", "1", " ", "(", "d", "e", "t", "a", "c", "h", "e", "d", ")">>

(***************************************************************************)
(* Properties of the segments                                              *)
(***************************************************************************)

\* C11: in a directory that is not a repository the branch query gives null
\* (rev-parse is then not even called) and the status query gives null.  The
\* branch fetch that ends with null at the generation it started with
\* writes the entry branch = null; from then on a read returns null, not
\* the provider's branch, also after the entry has gone stale; and with
\* that null branch and the zero counts of the failed status query the git
\* segment is not visible, whatever the preset's git options.
NonRepositoryHidesGit ==
  [][ /\ \A i \in 1..Len(branchFetches) :
           ( /\ branchFetches' = RemoveAt(branchFetches, i)
             /\ BranchFetchFailed'
             /\ branchFetches[i].fetchId = branchInvalidationCounter ) =>
               cachedBranch'.branch = Null
      /\ ( /\ ret'.op = "getGitStatus"
           /\ cachedBranch # NullEntry
           /\ cachedBranch.branch = Null ) =>
             /\ ret'.branch = Null
             /\ ret'.counts = ZeroCounts =>
                  \A preset \in PresetNames :
                    gitSegment(GitOf(ret'), GitOptions(preset)) =
                      [content |-> <<>>, visible |-> FALSE]
    ]_vars

\* Both queries failed and the failures are cached; the branch entry is
\* stale by now; a read with the provider's branch "p" has just returned
\* the null branch and zero counts, for which the git segment is hidden.
NonRepositoryRead ==
  /\ ret.op = "getGitStatus"
  /\ ret.provider = <<"p">>
  /\ ret.branch = Null
  /\ ret.counts = ZeroCounts
  /\ cachedBranch # NullEntry
  /\ cachedBranch.branch = Null
  /\ now - cachedBranch.timestamp >= BRANCH_TTL_MS
  /\ cachedStatus # NullEntry
  /\ ~gitSegment(GitOf(ret), GitOptions("default")).visible

\* The text has exactly two lines that are not empty, one starting with
\* "??" and one starting with "M" and a space.
RECURSIVE NonEmptyLines(_)
NonEmptyLines(lines) ==
  IF lines = <<>> THEN <<>>
  ELSE (IF Head(lines) = <<>> THEN <<>> ELSE <<Head(lines)>>)
       \o NonEmptyLines(Tail(lines))
StartsWith(line, a, b) == Len(line) >= 2 /\ line[1] = a /\ line[2] = b
OneUntrackedOneMSpace(text) ==
  LET ls == NonEmptyLines(SplitLines(text))
  IN  /\ Len(ls) = 2
      /\ \E i, j \in 1..2 :
           i # j /\ StartsWith(ls[i], "?", "?") /\ StartsWith(ls[j], "M", " ")

\* C12 as stated: for a status text with one line starting with "??" and
\* one line starting with "M " the parsed counts are staged 0, unstaged 1,
\* untracked 1.
ParseScenarioAsStated ==
  (parsed.done /\ OneUntrackedOneMSpace(porcelain)) =>
    parsed.counts = [staged |-> 0, unstaged |-> 1, untracked |-> 1]

\* C12, amended: for a status text with one line starting with "??" and one
\* line starting with "M " the parsed counts are staged 1, unstaged 0,
\* untracked 1: the first column is the index, and "M " is staged.
ParseScenario ==
  (parsed.done /\ OneUntrackedOneMSpace(porcelain)) =>
    parsed.counts = [staged |-> 1, unstaged |-> 0, untracked |-> 1]

\* The text "?? f" / "M  f" has been parsed.
ParsedUntrackedAndStaged ==
  /\ parsed.done
  /\ porcelain = <<"?", "?", " ", "f", "\n", "M", " ", " ", "f">>
  /\ parsed.counts = [staged |-> 1, unstaged |-> 0, untracked |-> 1]

\* The first n characters of a text.
Prefix(text, n) == SubSeq(text, 1, IF Len(text) < n THEN Len(text) ELSE n)

\* The scenario of C13: 7000 tokens used of a window of 8000.
Used7000Of8000 ==
  pctRendered.done /\ contextTokens = 7000 /\ modelContextWindow = 8000

\* C13 as stated: with 7000 tokens used of a window of 8000 the context_pct
\* segment selects the critical tier (the one for usage above 90%) and shows
\* the value 87.5%.
ContextScenarioAsStated ==
  Used7000Of8000 =>
    /\ pctRendered.tier = "contextError"
    /\ Prefix(pctRendered.text, 5) = <<"8", "7", ".", "5", "%">>

\* C13, amended: with 7000 tokens used of a window of 8000 the context_pct
\* segment shows the value 87.5% and selects the warning tier, the one for
\* usage above 70% and not above 90%; the critical tier is selected exactly
\* when usage is above 90%.
ContextScenario ==
  /\ Used7000Of8000 =>
       /\ pctRendered.tier = "contextWarn"
       /\ Prefix(pctRendered.text, 5) = <<"8", "7", ".", "5", "%">>
  /\ pctRendered.done =>
       LET window == ContextWindowOf(modelContextWindow)
       IN  /\ pctRendered.tier = "contextError" <=>
                (window > 0 /\ contextTokens * 100 > 90 * window)
           /\ pctRendered.tier = "contextWarn" <=>
                ( /\ window > 0
                  /\ contextTokens * 100 > 70 * window
                  /\ contextTokens * 100 <= 90 * window )

\* 7000 of 8000 tokens rendered with auto-compaction on: "87.5%/8.0k" and
\* the auto icon, in the warning tier.
Rendered7000Of8000 ==
  /\ Used7000Of8000
  /\ pctRendered.tier = "contextWarn"
  /\ pctRendered.text =
       <<"8", "7", ".", "5", "%", "/", "8", ".", "0", "k", " ", "z">>

(***************************************************************************)
(* Properties of the layout pass                                           *)
(***************************************************************************)

\* C14: in the layout pass, if the visible segment at position k is put in
\* the secondary row, every visible segment at a later position is put in
\* the secondary row too, also a narrower one that would fit in the width
\* the primary row still has free.
MonotonicOverflow ==
  layout.done =>
    \A k, j \in 1..Len(layout.rows) :
      (k < j /\ layout.rows[k] = "secondary") => layout.rows[j] = "secondary"

\* Width 8, separator "|": "a" is accepted (running width 3), the five
\* columns of "ddddd" overflow, and the second "a", which needs 4 more
\* columns and would fit, is in the secondary row as well.
NarrowerSegmentStaysBelow ==
  /\ layout.done
  /\ availableWidth = 8
  /\ separatorLeft = <<"|">>
  /\ Len(layout.segments) = 3
  /\ layout.segments[1].width = 1
  /\ layout.segments[2].width = 5
  /\ layout.segments[3].width = 1
  /\ layout.rows = <<"top", "secondary", "secondary">>
  /\ baseOverhead + 1 + (1 + layout.sepWidth) <= availableWidth

\* The contents of the segments put in a row, in order.
RECURSIVE ContentsOfRow(_, _, _)
ContentsOfRow(segs, rows, row) ==
  IF segs = <<>> THEN <<>>
  ELSE (IF Head(rows) = row THEN <<Head(segs).content>> ELSE <<>>)
       \o ContentsOfRow(Tail(segs), Tail(rows), row)

\* The sum of the widths of the first k segments.
RECURSIVE SumWidths(_, _)
SumWidths(segs, k) ==
  IF k = 0 THEN 0 ELSE segs[k].width + SumWidths(segs, k - 1)

\* C15: the layout is one left-to-right pass over the visible segments with
\* a running width that starts at the overhead 2.  A segment is accepted
\* into the primary row exactly when no earlier segment has overflowed and
\* running width + its width + one separator width (if the primary row
\* holds a segment already) is within the available width; the running
\* width grows by accepted segments only (so at segment k, all before it
\* accepted, it is 2 + their widths + a separator between each two); every
\* other segment goes to the secondary row, and the two rows are built from
\* the segments so placed, in their order.
SinglePassLayout ==
  layout.done =>
    /\ layout.segments = RenderedSegments(rendered)
    /\ Len(layout.rows) = Len(layout.segments)
    /\ layout.sepWidth = visibleWidth(separatorLeft) + 2
    /\ \A k \in 1..Len(layout.rows) :
         layout.rows[k] = "top" <=>
           /\ \A j \in 1..(k - 1) : layout.rows[j] = "top"
           /\ baseOverhead + SumWidths(layout.segments, k)
                + (k - 1) * layout.sepWidth <= availableWidth
    /\ \A k \in 1..Len(layout.rows) : layout.rows[k] \in {"top", "secondary"}
    /\ layout.topContent =
         buildContentFromParts(
           ContentsOfRow(layout.segments, layout.rows, "top"), separatorLeft)
    /\ layout.secondaryContent =
         buildContentFromParts(
           ContentsOfRow(layout.segments, layout.rows, "secondary"),
           separatorLeft)

\* Width 8, separator "|": "a" and the coloured "bb" fill the primary row
\* to the last column (2 + 1 + 3 + 2 = 8) and "ddddd" goes below.
PrimaryRowFilledExactly ==
  /\ layout.done
  /\ availableWidth = 8
  /\ separatorLeft = <<"|">>
  /\ Len(layout.segments) = 3
  /\ layout.segments[1].width = 1
  /\ layout.segments[2].width = 2
  /\ layout.segments[3].width = 5
  /\ layout.rows = <<"top", "top", "secondary">>
  /\ visibleWidth(layout.topContent) = 8

\* C16: if the available width is smaller than the overhead plus the width
\* of the first visible segment, the primary row is the empty string and
\* the first visible segment and all after it are in the secondary row.
TooNarrowForFirstSegment ==
  ( /\ layout.done
    /\ Len(layout.segments) > 0
    /\ availableWidth < baseOverhead + layout.segments[1].width ) =>
      /\ layout.topContent = <<>>
      /\ \A k \in 1..Len(layout.rows) : layout.rows[k] = "secondary"
      /\ layout.secondaryContent # <<>>

\* Width 4: the first segment renders nothing and is skipped, "ccc" is the
\* first visible one and needs 5 columns, so the primary row is empty and
\* both "ccc" and the "a" after it (which alone would fit) are below.
FirstSegmentOverflowed ==
  /\ layout.done
  /\ availableWidth = 4
  /\ Len(rendered) = 3
  /\ ~rendered[1].visible
  /\ Len(layout.segments) = 2
  /\ layout.segments[1].width = 3
  /\ layout.segments[2].width = 1
  /\ layout.topContent = <<>>
  /\ layout.rows = <<"secondary", "secondary">>

\* ---------------------------------------------------------------------
\* Properties of the command, the surfaces and the layout cache
\* ---------------------------------------------------------------------

\* C17: whenever the extension is disabled, none of the five surfaces it
\* owns (editor, footer, header, secondary widget, status widget) is
\* installed, also when an editor setup started before the toggle-off
\* finishes after it.
DisabledOwnsNoSurface == ~enabled => surfaces = NoSurfaces

\* What a render can read of the repository: the branch of the provider or
\* none, and the counts of any status output or none.
GitViews ==
  { [branch |-> b, staged |-> c.staged, unstaged |-> c.unstaged,
     untracked |-> c.untracked] :
      b \in ProviderBranches \cup {Null},
      c \in {ZeroCounts} \cup { parseGitStatusOutput(o) : o \in StatusOutputs } }

\* C18: after a preset change or a toggle-off the cached layout is
\* discarded, and every layout a request returns, served from the cache or
\* not, is one computed from the preset active at the request.
LayoutDiscardedOnChange ==
  /\ [](layoutRet.op = "layout" =>
         \E git \in GitViews :
           layoutRet.result =
             LayoutFor(configPreset, git, codexUsage, layoutRet.width))
  /\ [][(configPreset' # configPreset \/ (enabled /\ ~enabled'))
          => lastLayoutResult' = NoLayout]_vars

\* A layout computed under the default preset in this very instant is gone
\* after the command changed the preset to minimal.
DiscardedByPresetChange ==
  /\ layoutRet.op = "command"
  /\ layoutRet.from = "default"
  /\ configPreset = "minimal"
  /\ lastLayoutWidth \in Widths
  /\ lastLayoutTimestamp = now
  /\ now > 0
  /\ lastLayoutResult = NoLayout
  /\ surfaces.editor

\* A step that is a layout request of width w: a render returned or threw,
\* and no fetch ended.
LayoutRequestStep(w) ==
  /\ layoutRet'.op \in {"layout", "throw"}
  /\ layoutRet'.width = w
  /\ Len(statusFetches') >= Len(statusFetches)
  /\ now' = now

\* The request was answered from the cache.
AnsweredFromCache == layoutRet'.op = "layout" /\ layoutRet'.hit

\* The request finds the cache holding another width or a layout as old
\* as the window.
OtherWidthOrAfterWindow(w) ==
  lastLayoutWidth # w \/ now - lastLayoutTimestamp >= LAYOUT_CACHE_MS

\* C19 as stated: a request of a width for which a layout was computed
\* less than 50 ms ago, with no preset change and no toggle since, returns
\* the strings of that layout; a request of another width than the cached
\* one, or after the window, computes the layout again.
SameWidthSameLayoutAsStated ==
  [][\A w \in Widths :
       LayoutRequestStep(w) =>
         /\ served[w].served =>
               layoutRet'.op = "layout" /\ layoutRet'.result = served[w].result
         /\ OtherWidthOrAfterWindow(w) => ~AnsweredFromCache]_vars

\* C19 with the condition the single cache slot adds: the request returns
\* the strings of the layout computed for its width less than 50 ms ago
\* when no preset change, no toggle and no request of another width came in
\* between; a request of another width than the cached one, or after the
\* window, computes the layout again.
SameWidthSameLayout ==
  [][\A w \in Widths :
       LayoutRequestStep(w) =>
         /\ served[w].served /\ ~served[w].other =>
               layoutRet'.op = "layout" /\ layoutRet'.result = served[w].result
         /\ OtherWidthOrAfterWindow(w) => ~AnsweredFromCache]_vars

\* A request got, at a later instant of the window, the strings computed
\* for its width.
RepeatedRequestServed ==
  /\ layoutRet.op = "layout"
  /\ layoutRet.hit
  /\ served[layoutRet.width].served
  /\ ~served[layoutRet.width].other
  /\ served[layoutRet.width].at < now
  /\ layoutRet.result = served[layoutRet.width].result

\* The text is the name of one of the presets.
KnownPresetName(text) == \E key \in PresetNames : NameText(key) = text

\* C20: the powerline command with an argument that is not the name of a
\* preset changes nothing but the notice: the active preset, the enabled
\* flag, the installed surfaces and the layout cache stay as they were.
UnknownNameIsNoOp ==
  [][(/\ layoutRet'.op = "command"
      /\ layoutRet'.args # <<>>
      /\ ~KnownPresetName(toLowerCase(Trim(layoutRet'.args))))
       => UNCHANGED <<configPreset, enabled, surfaces, layoutCache>>]_vars

\* C21: the extension starts enabled with the default preset, the command
\* with the name of a preset q while enabled leaves it enabled with preset
\* q, and the active preset is at all times the name of a preset.
ToggleStateFollowsTransitions ==
  /\ enabled = TRUE
  /\ configPreset = "default"
  /\ [](configPreset \in PresetNames)
  /\ [][(/\ layoutRet'.op = "command"
          /\ enabled
          /\ KnownPresetName(toLowerCase(Trim(layoutRet'.args))))
           => /\ enabled'
              /\ NameText(configPreset') = toLowerCase(Trim(layoutRet'.args))]_vars

\* ---------------------------------------------------------------------
\* Properties of the rows and of the segments in them
\* ---------------------------------------------------------------------

\* The number of segments put in the primary row.
RECURSIVE TopCount(_)
TopCount(rows) ==
  IF rows = <<>> THEN 0
  ELSE (IF Head(rows) = "top" THEN 1 ELSE 0) + TopCount(Tail(rows))

\* C22: a primary row that is not empty is at most as wide as the available
\* width, and its visible width is the running width of the pass: 2, the
\* widths of its segments and a separator width between each two.  The
\* secondary widget emits the secondary row only if the row is not empty
\* and not wider than the terminal, and emits nothing otherwise.
RowsFitTerminal ==
  layout.done =>
    /\ layout.topContent # <<>> =>
         /\ visibleWidth(layout.topContent) <= availableWidth
         /\ visibleWidth(layout.topContent) =
              baseOverhead
                + SumWidths(layout.segments, TopCount(layout.rows))
                + (TopCount(layout.rows) - 1) * layout.sepWidth
    /\ "lines" \in DOMAIN layout =>
         /\ layout.lines \in {<<>>, <<layout.secondaryContent>>}
         /\ layout.lines # <<>> <=>
              /\ layout.secondaryContent # <<>>
              /\ visibleWidth(layout.secondaryContent) <= availableWidth

\* The primary row holds a segment and the secondary row, wider than the
\* terminal, was not emitted.
SecondaryRowDropped ==
  /\ layout.done
  /\ "lines" \in DOMAIN layout
  /\ layout.topContent # <<>>
  /\ layout.secondaryContent # <<>>
  /\ visibleWidth(layout.secondaryContent) > availableWidth
  /\ layout.lines = <<>>

\* The ids of the list that SEGMENTS has and whose render is visible with a
\* content.
RECURSIVE ShownIds(_)
ShownIds(ids) ==
  IF ids = <<>> THEN <<>>
  ELSE LET r == IF Head(ids) \in SegmentRegistry
                THEN renderSegment(Head(ids), PlainContext)
                ELSE [content |-> <<>>, visible |-> FALSE]
       IN  (IF r.visible /\ r.content # <<>> THEN <<Head(ids)>> ELSE <<>>)
           \o ShownIds(Tail(ids))

\* C23: an id SEGMENTS does not have renders as not visible and raises no
\* error, and a segment that is not visible or has no content is left out
\* of both rows and adds neither width nor separator: the layout of a list
\* of ids is the layout of the list without those ids.
UnknownIdsLeftOut ==
  layout.done /\ "ids" \in DOMAIN layout =>
    /\ layout.op = "layout"
    /\ LET shown == LayoutOfIds(ShownIds(layout.ids), layout.sep, layout.width)
       IN  /\ layout.topContent = shown.topContent
           /\ layout.secondaryContent = shown.secondaryContent
           /\ layout.segments = shown.segments
           /\ layout.rows = shown.rows

\* ---------------------------------------------------------------------
\* Properties of the invalidating events
\* ---------------------------------------------------------------------

\* The command lines drawn that are a git checkout, switch, merge, rebase,
\* pull, reset, worktree, branch -d/-D/-m/-M or stash pop/apply.
BranchChangingLines ==
  { "git checkout main", "git switch dev", "git merge dev", "git rebase main",
    "git pull", "git reset x", "git worktree add w", "git branch -d old",
    "git branch -D old", "git branch -m a", "git branch -M a",
    "git stash pop", "git stash apply", "cd x && git  pull" }

EventOps == {"tool_result", "user_bash"}

\* The event is a bash tool result or a user escape command with one of
\* those command lines.
MayChangeBranch(event) ==
  /\ event.op \in EventOps
  /\ event.op = "tool_result" => event.toolName = "bash"
  /\ event.command \in BranchChangingLines

\* The event is a write or edit tool result.
WritesFile(event) ==
  event.op = "tool_result" /\ event.toolName \in {"write", "edit"}

\* C24: the status cache is invalidated by a write or edit tool result and
\* by a bash tool result or user escape command that may change the branch,
\* the branch cache by the latter only, and neither by anything else.
InvalidatedByTheseEventsOnly ==
  [][/\ invalidationCounter' # invalidationCounter =>
          WritesFile(ret') \/ MayChangeBranch(ret')
     /\ branchInvalidationCounter' # branchInvalidationCounter =>
          MayChangeBranch(ret')
     /\ ret'.op \in EventOps =>
          /\ IF WritesFile(ret') \/ MayChangeBranch(ret')
             THEN /\ invalidationCounter' = invalidationCounter + 1
                  /\ cachedStatus' = NullEntry
             ELSE UNCHANGED <<invalidationCounter, cachedStatus>>
          /\ IF MayChangeBranch(ret')
             THEN /\ branchInvalidationCounter' = branchInvalidationCounter + 1
                  /\ cachedBranch' = NullEntry
             ELSE UNCHANGED <<branchInvalidationCounter, cachedBranch>>]_vars

\* Both entries were filled when the result of `cd x && git  pull` arrived,
\* and both are empty after it.
PullInvalidatedBoth ==
  /\ ret.op = "tool_result"
  /\ ret.command = "cd x && git  pull"
  /\ cachedStatus = NullEntry
  /\ cachedBranch = NullEntry
  /\ invalidationCounter = 1
  /\ branchInvalidationCounter = 1
  /\ lastStart.status.started /\ lastStart.status.outcome = "ok"
  /\ lastStart.branch.started /\ lastStart.branch.outcome = "ok"

\* ---------------------------------------------------------------------
\* Properties of the context segment, the gateway's counts and the rows
\* ---------------------------------------------------------------------

\* The text of the context segment for a usage and a window, with or
\* without the auto-compact icon: the percentage with one decimal, "%/" and
\* the window.
ContextTexts(tokens, window) ==
  LET tenths == IF window > 0 THEN RoundDiv(tokens * 1000, window) ELSE 0
      plain == TenthsToString(tenths) \o <<"%", "/">> \o formatTokens(window)
  IN  {plain, plain \o <<" ", AutoIcon>>}

\* C25: the context segment is critical when the percentage is above 90,
\* warning when it is above 70 and at most 90, normal otherwise, and its
\* text is the same whatever the tier: the percentage, the window and the
\* auto-compact icon, with only the colour taken from the tier.
TierChangesColourOnly ==
  pctRendered.done =>
    LET window == ContextWindowOf(modelContextWindow)
        above90 == window > 0 /\ contextTokens * 100 > 90 * window
        above70 == window > 0 /\ contextTokens * 100 > 70 * window
    IN  /\ pctRendered.tier =
             (IF above90 THEN "contextError"
              ELSE IF above70 THEN "contextWarn" ELSE "context")
        /\ pctRendered.text \in ContextTexts(contextTokens, window)
        /\ pctRendered.content = <<ContextIcon, " ">> \o pctRendered.text
        /\ pctRendered.visible

\* 9500 of 10000 tokens: the critical tier, with the text "95.0%/10k".
CriticalTierPlainText ==
  /\ pctRendered.done
  /\ contextTokens = 9500
  /\ modelContextWindow = 10000
  /\ pctRendered.tier = "contextError"
  /\ pctRendered.text = <<"9", "5", ".", "0", "%", "/", "1", "0", "k">>


(***************************************************************************)
(* C26: in generate mode the result of a vibe generation becomes the       *)
(* working message only if no later generation has been started and the    *)
(* agent has not ended since that generation started, and only while       *)
(* streaming: a generation that completes late never overwrites the        *)
(* message of a newer one, and nothing is applied after agent end.         *)
(***************************************************************************)
GenerationApplied ==
  /\ workingMessage' # workingMessage
  /\ workingMessage'.kind \in {"vibe", "fallback"}

OnlyLatestGenerationApplied ==
  [][GenerationApplied =>
       LET g == workingMessage'.gen
       IN  /\ g = Len(controllers)
           /\ g = currentGeneration
           /\ controllers[g].ends = agentEnds
           /\ ~controllers[g].aborted
           /\ isStreaming]_vars

\* The first generation was aborted by the second, returned a vibe late
\* and was dropped; the message is the vibe of the second.
StaleGenerationDropped ==
  /\ Len(controllers) >= 2
  /\ agentEnds = 0
  /\ controllers[1].state = "stale"
  /\ controllers[2].state = "applied"
  /\ workingMessage = [kind |-> "vibe", gen |-> 2]


(***************************************************************************)
(* C27: for the status output git prints, the counts obtained through      *)
(* fetchGitStatus follow the XY format for every line, the first           *)
(* included: a "??" line counts as untracked only; any other line counts   *)
(* as staged exactly when its first column is not a space and as unstaged  *)
(* exactly when its second column is not a space.                          *)
(***************************************************************************)
\* A line as git prints it: two status columns, a space, a path.
PrintedLine(line) == Len(line) >= 4

XYLines(text) == IF text = <<>> THEN <<>> ELSE SplitLines(text)

Count(lines, Test(_)) == Cardinality({ i \in 1..Len(lines) : Test(lines[i]) })

IsUntracked(line) == line[1] = "?" /\ line[2] = "?"
IsStaged(line) == ~IsUntracked(line) /\ line[1] # " "
IsUnstaged(line) == ~IsUntracked(line) /\ line[2] # " "

XYCounts(text) ==
  [staged |-> Count(XYLines(text), IsStaged),
   unstaged |-> Count(XYLines(text), IsUnstaged),
   untracked |-> Count(XYLines(text), IsUntracked)]

GatewayCountsFollowXY ==
  (/\ parsed.done
   /\ ~parsed.failed
   /\ \A i \in 1..Len(XYLines(porcelain)) : PrintedLine(XYLines(porcelain)[i]))
  => parsed.counts = XYCounts(porcelain)

\* The same for texts whose first line has a status in its first column.
GatewayCountsFollowXYAfterFirstColumn ==
  (/\ parsed.done
   /\ ~parsed.failed
   /\ \A i \in 1..Len(XYLines(porcelain)) : PrintedLine(XYLines(porcelain)[i])
   /\ (porcelain # <<>> => Head(porcelain) # " "))
  => parsed.counts = XYCounts(porcelain)


(***************************************************************************)
(* C28: if reads keep being made and every started fetch completes, then   *)
(* after the last invalidation of a kind the cache of that kind is         *)
(* eventually filled with the result of a fetch started after that         *)
(* invalidation, also when a fetch was in flight at the invalidation.      *)
(***************************************************************************)
StatusFilledSince(k) ==
  cachedStatus # NullEntry /\ source.status = k

BranchFilledSince(k) ==
  cachedBranch # NullEntry /\ source.branch = k

RepopulatedAfterLastInvalidation ==
  \A k \in 1..MaxInvalidations :
    /\ (invalidationCounter = k)
         ~> (invalidationCounter # k \/ StatusFilledSince(k))
    /\ (branchInvalidationCounter = k)
         ~> (branchInvalidationCounter # k \/ BranchFilledSince(k))

\* Both kinds have been invalidated for the last time and both entries hold
\* the result of a fetch started after that.
RefilledAfterLastInvalidation ==
  /\ invalidationCounter = MaxInvalidations
  /\ branchInvalidationCounter = MaxInvalidations
  /\ StatusFilledSince(MaxInvalidations)
  /\ BranchFilledSince(MaxInvalidations)
  /\ pendingFetch = NoPromise
  /\ pendingBranchFetch = NoPromise


(***************************************************************************)
(* C29: for every width the layout puts each visible segment of the        *)
(* preset's list (left ids, then right ids, then secondary ids) in exactly *)
(* one of the two rows, and the primary row followed by the secondary row  *)
(* lists them in that order: none lost, duplicated or reordered.           *)
(***************************************************************************)
\* The contents, in the order of the list, of the renders that are visible
\* and not empty.
VisibleContents(rs) ==
  LET shown == SelectSeq(rs, LAMBDA r : r.visible /\ r.content # <<>>)
  IN  [i \in 1..Len(shown) |-> shown[i].content]

\* The two rows are the first t contents and the remaining ones.
SplitsAt(t, contents) ==
  /\ layout.topContent =
       buildContentFromParts(SubSeq(contents, 1, t), separatorLeft)
  /\ layout.secondaryContent =
       buildContentFromParts(SubSeq(contents, t + 1, Len(contents)),
                             separatorLeft)

EverySegmentInOneRowInOrder ==
  layout.done =>
    LET contents == VisibleContents(rendered)
    IN  /\ \E t \in 0..Len(contents) : SplitsAt(t, contents)
        /\ Len(layout.rows) = Len(contents)
        /\ \A i \in 1..Len(contents) :
             layout.rows[i] = IF i <= TopCount(layout.rows)
                              THEN "top" ELSE "secondary"

\* Of three renders one is not visible; the first visible one is in the
\* primary row and the second in the secondary row.
OneSegmentInEachRow ==
  /\ layout.done
  /\ Len(rendered) = 3
  /\ layout.rows = <<"top", "secondary">>
  /\ layout.topContent # <<>>
  /\ layout.secondaryContent # <<>>


(***************************************************************************)
(* C30: a quota refresh that fails sets the stored snapshot to null, a     *)
(* snapshot fetched before included, so the quota segment is not visible   *)
(* until a later refresh succeeds; the refresh ends normally, the          *)
(* in-flight marker is cleared whether it succeeded or failed, and a       *)
(* re-render is requested either way.                                      *)
(***************************************************************************)
RefreshSettled == ret'.op = "refreshCodexUsage" /\ ret' # ret

CodexVisible(usage) ==
  renderSegment("codex", [PlainContext EXCEPT !.codexUsage = usage]).visible

FailureClearsSnapshot ==
  (RefreshSettled /\ ret'.threw) =>
    /\ codexUsage' = NullEntry
    /\ ~CodexVisible(codexUsage')

====
